---- MODULE Spec2Model ----
(***************************************************************************)
(* Model of the upsert paths of the datadice_utilpack GCP toolkit:         *)
(*   - BigQueryController.upsert_rows and its private helpers              *)
(*     (gcp_toolkit/bigquery_controller.py), specification SpecBQ;         *)
(*   - CloudSQLController.batch_insert and the helpers it calls            *)
(*     (gcp_toolkit/cloud_sql_controller.py), specification SpecSQL.       *)
(* The BigQuery client and the PostgreSQL connection are the environment:  *)
(* every remote call is a step whose outcome (success, not-found, other    *)
(* failure) is chosen nondeterministically within what the store's state   *)
(* allows.                                                                 *)
(***************************************************************************)
EXTENDS Integers, Sequences, FiniteSets, TLC

(***************************************************************************)
(* Bounds of the model.                                                    *)
(***************************************************************************)
\* number of upsert_rows calls made one after another on one controller
MaxCalls == 2
\* number of fresh batch_insert calls made one after another on one controller
MaxInserts == 2
\* longest data_list handed to batch_insert
MaxBatch == 2
\* number of log_to_cloud_monitoring calls made one after another
MaxLogs == 2
MaxCreates == 3
MaxOps == 2
MaxBatches == 2
MaxJobCalls == 3
MaxUuids == 3
\* longest sample handed to infer_data_type
MaxSample == 3
\* most rows of a short dict_list handed to generate_create_table_statement
MaxRows == 2
\* most rows that follow the uniform leading part of a long dict_list
MaxTail == 1

(***************************************************************************)
(* Program constants.                                                      *)
(***************************************************************************)
\* bigquery_controller.py:74  verification_attempts = 2
verification_attempts == 2
\* bigquery_controller.py:75  delay_seconds = 3
delay_seconds == 3
\* bigquery_controller.py:122 max_retries=5
max_retries == 5
\* bigquery_controller.py:322 UpsertRequestError(418, ...)
UpsertStatusCode == 418
\* cloud_sql_controller.py:141 sample_size = min(1000, len(dict_list))
SampleLimit == 1000
\* monitoring_controller.py:83-86  the policy of retry.Retry, in seconds
retry_initial == 2
retry_maximum == 61
retry_multiplier == 3
retry_deadline == 301

(***************************************************************************)
(* BigQuery: value universes.                                              *)
(***************************************************************************)
\* The target table's reference; the staging table of the n-th call has
\* reference n (the uuid4 suffix of line 287 is fresh for every call).
MainRef == 0
TableRefs == 0..MaxCalls
\* Table schemas; "none" is the schema of a table that does not exist.
Schemas == {"A", "B"}
\* The schema parsed from the file at schema_path.
SchemaFromJson == "A"
\* Rows of a table, keyed by the unique column: key -> value, "absent" when
\* the table holds no row with that key.
Keys == {1, 2}
Vals == {"a", "b"}
RowMaps == [Keys -> Vals \cup {"absent"}]
NoRows == [k \in Keys |-> "absent"]

\* Exceptions: the class, the status_code attribute (0 when the class has
\* none) and the message text; for UpsertRequestError the content is the
\* prefix followed by str(e) of the wrapped exception.
NoExc == [type |-> "none", status_code |-> 0, content |-> <<>>]
Exc(type, msg) == [type |-> type, status_code |-> 0, content |-> <<msg>>]

VARIABLES
    bqTables,        \* references of the tables that exist in the dataset
    bqSchema,        \* reference -> schema ("none" when the table is absent)
    bqRows,          \* rows of the target table
    tempRows,        \* rows of the current call's staging table
    callNo,          \* number of upsert_rows calls started so far
    pc,              \* position of the running upsert_rows call
    schema_path,     \* argument: TRUE when a schema_path was given
    rows_to_insert,  \* argument: the rows to upsert
    i,               \* _create_temp_table: loop variable of line 77
    attempt,         \* _insert_into_temp_table: loop variable of line 142
    cause,           \* the first exception raised inside the call
    exc,             \* the exception in flight / delivered to the caller
    trace,           \* client calls, sleeps and log lines of the running call
    rows0            \* rows of the target table when the call started

bqVars == <<bqTables, bqSchema, bqRows, tempRows, callNo, pc, schema_path,
            rows_to_insert, i, attempt, cause, exc, trace, rows0>>

VARIABLES
    dbSchemaExists,     \* the schema table_schema exists in the database
    dbTableExists,      \* the table table_schema.table_name exists
    dbCols,             \* its columns, in catalog order
    dbColTypes,         \* column -> udt_name of the column catalog
    dbPK,               \* the columns of its primary key
    dbRows,             \* its committed rows: a bag, stored row -> copies
    txState,            \* the connection: "idle", "open" or "aborted"
    sqlpc,              \* position of the running batch_insert call
    data_list,          \* argument: the caller's list of row dicts
    primary_keys,       \* argument
    on_conflict_action, \* argument
    timestamp_columns,  \* argument
    table_found,        \* what does_table_exist returned (line 359)
    on_conflict_clause, \* the clause built in lines 373-388
    sqlExc,             \* the exception delivered to the caller
    sent,               \* statements the call has sent to the database
    inserts,            \* number of fresh batch_insert calls so far
    repeat,             \* the running call repeats the previous one
    firstOk,            \* ... and that previous call returned normally
    createdWith,        \* primary_keys of the call that created the table
    db0,                \* schema, table and rows when the call started
    data_list0          \* the caller's rows when the call started

sqlVars == <<dbSchemaExists, dbTableExists, dbCols, dbColTypes, dbPK, dbRows,
             txState, sqlpc, data_list, primary_keys, on_conflict_action,
             timestamp_columns, table_found, on_conflict_clause, sqlExc, sent,
             inserts, repeat, firstOk, createdWith, db0, data_list0>>

VARIABLES
    monpc,              \* position of the running log_to_cloud_monitoring call
    metric_descriptors, \* self.metric_descriptors: metric type -> descriptor
    createCalls,        \* the calls of client.create_metric_descriptor so far
    descResults,        \* what each create_metric_descriptor call ended with
    creates,            \* number of direct create_metric_descriptor calls
    remoteDescriptors,  \* metric types whose descriptor Cloud Monitoring holds
    points,             \* points written to Cloud Monitoring so far
    delay,              \* retry: the upper end of the next sleep
    elapsed,            \* retry: seconds since the first attempt
    writeErr,           \* the error the retried write ended with
    monExc,             \* the exception delivered to the caller
    logs                \* number of log_to_cloud_monitoring calls so far

monVars == <<monpc, metric_descriptors, createCalls, descResults, creates,
             remoteDescriptors, points, delay, elapsed, writeErr, monExc,
             logs>>

VARIABLES
    fn,                 \* the pure function under evaluation
    in_values,          \* infer_data_type: values
    in_dict_list,       \* generate_create_table_statement: dict_list
    in_primary_keys,    \* generate_create_table_statement: primary_keys
    in_columns,         \* _generate_sql_merge: names of main_table.schema
    in_unique_columns,  \* _generate_sql_merge: unique_columns
    in_data,            \* batch_insert: one row dict of data_list
    in_column_types,    \* batch_insert: column_types read from the catalog
    out                 \* what the function returned or raised

pureVars == <<fn, in_values, in_dict_list, in_primary_keys, in_columns,
              in_unique_columns, in_data, in_column_types, out>>

VARIABLES
    fsDocs,             \* Firestore: document path -> the stored document
    fspc,               \* position of the running batch call
    fsMethod,           \* "batch_upsert_by_path" or "batch_set_by_path"
    operations,         \* argument: the entries of the batch
    fsIdx,              \* entries gone through so far
    fsBatch,            \* the writes added to the WriteBatch
    fsErr,              \* the exception raised inside the try block
    fsExc,              \* the exception delivered to the caller
    fsDocs0,            \* the documents when the call started
    fsCalls             \* number of batch calls so far

fsVars == <<fsDocs, fspc, fsMethod, operations, fsIdx, fsBatch, fsErr, fsExc,
            fsDocs0, fsCalls>>

VARIABLES
    jobTables,          \* BigQueryJobs: table id -> its schema, or "none"
    jobpc,              \* position of the running create_bq_table call
    job_table_id,       \* argument
    job_schema_path,    \* argument: the schema its file holds
    jobExc,             \* the exception delivered to the caller
    jobTrace,           \* the client calls of the running call
    jobTables0,         \* the tables when the call started
    jobCalls            \* number of create_bq_table calls so far

jobVars == <<jobTables, jobpc, job_table_id, job_schema_path, jobExc,
             jobTrace, jobTables0, jobCalls>>

VARIABLES
    cTables,            \* concurrent upserts: the staging tables that exist
    cStaged,            \* staging reference -> the calls whose rows it holds
    cMerged,            \* call -> the calls whose rows its MERGE moved
    cpc,                \* call -> its position
    cref,               \* call -> its full_temp_table_ref (0: not named yet)
    cI,                 \* call -> i of the verification loop
    cAttempt,           \* call -> attempt of the load loop
    usedIds,            \* the values uuid4 has returned
    cOps                \* the client calls made on staging references

concVars == <<cTables, cStaged, cMerged, cpc, cref, cI, cAttempt, usedIds,
              cOps>>

vars == <<bqVars, sqlVars, monVars, pureVars, fsVars, jobVars, concVars>>
\* what the steps of one component leave alone
notBQ == <<sqlVars, monVars, pureVars, fsVars, jobVars, concVars>>
notSQL == <<bqVars, monVars, pureVars, fsVars, jobVars, concVars>>
notMon == <<bqVars, sqlVars, pureVars, fsVars, jobVars, concVars>>
notPure == <<bqVars, sqlVars, monVars, fsVars, jobVars, concVars>>
notFS == <<bqVars, sqlVars, monVars, pureVars, jobVars, concVars>>
notJobs == <<bqVars, sqlVars, monVars, pureVars, fsVars, concVars>>
notConc == <<bqVars, sqlVars, monVars, pureVars, fsVars, jobVars>>

Ev(op, arg) == [op |-> op, arg |-> arg]
Log(op, arg) == trace' = Append(trace, Ev(op, arg))

\* line 285-288: the staging reference of the running call
full_temp_table_ref == callNo

(***************************************************************************)
(* BigQuery: initial state. The target table exists or not; when it exists *)
(* it has one of the schemas and some rows.                                *)
(***************************************************************************)
\* the frame of upsert_rows when no call is running
BQFrameIdle ==
    /\ tempRows = NoRows
    /\ callNo = 0
    /\ pc = "idle"
    /\ schema_path = FALSE
    /\ rows_to_insert = NoRows
    /\ i = 0
    /\ attempt = 0
    /\ cause = NoExc
    /\ exc = NoExc
    /\ trace = <<>>
    /\ rows0 = NoRows

InitBQ ==
    /\ \E exists \in BOOLEAN, s \in Schemas, r \in RowMaps :
          /\ bqTables = IF exists THEN {MainRef} ELSE {}
          /\ bqSchema = [t \in TableRefs |->
                            IF exists /\ t = MainRef THEN s ELSE "none"]
          /\ bqRows = IF exists THEN r ELSE NoRows
    /\ BQFrameIdle

\* the BigQuery side when only the Cloud SQL controller is exercised
BQAtRest ==
    /\ bqTables = {}
    /\ bqSchema = [t \in TableRefs |-> "none"]
    /\ bqRows = NoRows
    /\ BQFrameIdle

(***************************************************************************)
(* BigQuery: helpers.                                                      *)
(***************************************************************************)
\* An exception raised outside the try block of upsert_rows (lines 277-288)
\* reaches the caller as it is.
RaiseToCaller(e) == cause' = e /\ exc' = e /\ pc' = "done"
\* An exception raised inside the try block (lines 289-319) is caught by
\* the except clause of line 320.
RaiseInTryFallsThrough(e) == cause' = e /\ pc' = "query" /\ UNCHANGED exc
RaiseInTry(e) == cause' = e /\ pc' = "except" /\ UNCHANGED exc

\* line 322: raise UpsertRequestError(418, f"Code 418: Upsert failed - {e}")
WrapUpsertErrorAsIs(e) == e
WrapUpsertError(e) ==
    [type |-> "UpsertRequestError", status_code |-> UpsertStatusCode,
     content |-> <<"Code 418: Upsert failed - ">> \o e.content]

\* lines 320-324: the finally clause runs after the except clause
ExceptTargetSkipsFinally == "done"
ExceptTarget == "finally"

\* line 183: main_table.schema != temp_table.schema is the mismatch
SchemasMatchAlways(main, temp) == TRUE
SchemasMatch(main, temp) == main = temp

\* line 77: for i in range(verification_attempts)
VerifyContinuesOffByOne(n) == n <= verification_attempts
VerifyContinues(n) == n < verification_attempts

\* line 142: for attempt in range(max_retries)
LoadContinuesOffByOne(a) == a <= max_retries
LoadContinues(a) == a < max_retries

\* line 162: sleep(2**attempt)
BackOffLinear(a) == a + 1
BackOff(a) == 2 ^ a

\* line 281: if not schema_path: raise ValueError(...)
SchemaPathMissingNever(sp) == FALSE
SchemaPathMissing(sp) == ~sp

\* lines 323-324: an exception raised by the finally clause replaces the
\* exception in flight
RaisedInFinallyKeepsInFlight(e, inflight) ==
    IF inflight = NoExc THEN e ELSE inflight
RaisedInFinally(e, inflight) == e

\* lines 212-221: MERGE ... ON T.k = S.k WHEN MATCHED THEN UPDATE ...
\* WHEN NOT MATCHED THEN INSERT, applied to the target by the query job
MergeRows(target, staging) ==
    [k \in Keys |-> IF staging[k] # "absent" THEN staging[k] ELSE target[k]]

(***************************************************************************)
(* BigQuery: upsert_rows, one action per step.                             *)
(***************************************************************************)
\* lines 255-263: a call starts with its arguments
UpsertRows ==
    /\ pc = "idle"
    /\ callNo < MaxCalls
    /\ \E sp \in BOOLEAN, rows \in RowMaps :
          /\ schema_path' = sp
          /\ rows_to_insert' = rows
    /\ callNo' = callNo + 1
    /\ pc' = "table_exists"
    /\ i' = 0
    /\ attempt' = 0
    /\ cause' = NoExc
    /\ exc' = NoExc
    /\ trace' = <<>>
    /\ rows0' = bqRows
    /\ tempRows' = NoRows
    /\ UNCHANGED <<bqTables, bqSchema, bqRows>>
    /\ UNCHANGED notBQ

\* lines 277-282 with _table_exists (223-239): NotFound means absent, any
\* other failure of get_table is not caught
TableExists ==
    /\ pc = "table_exists"
    /\ \/ /\ Log("get_table", 0)
          /\ RaiseToCaller(Exc("GoogleAPIError", "get_table failed"))
       \/ /\ MainRef \in bqTables
          /\ Log("get_table", 1)
          /\ pc' = "create_temp"
          /\ UNCHANGED <<cause, exc>>
       \/ /\ MainRef \notin bqTables
          /\ Log("get_table", 0)
          /\ IF ~SchemaPathMissing(schema_path)
                THEN pc' = "create_new_table" /\ UNCHANGED <<cause, exc>>
                ELSE RaiseToCaller(Exc("ValueError",
                        "Schema path must be provided to create a new table."))
    /\ UNCHANGED <<bqTables, bqSchema, bqRows, tempRows, callNo, schema_path,
                   rows_to_insert, i, attempt, rows0>>
    /\ UNCHANGED notBQ

\* line 283 with _create_new_table (241-253) and _load_schema (112-116)
CreateNewTable ==
    /\ pc = "create_new_table"
    /\ \/ /\ Log("load_schema", 0)
          /\ RaiseToCaller(Exc("Exception", "Could not load schema from path"))
          /\ UNCHANGED <<bqTables, bqSchema, bqRows>>
       \/ /\ Log("create_table", 0)
          /\ RaiseToCaller(Exc("GoogleAPIError", "create_table failed"))
          /\ UNCHANGED <<bqTables, bqSchema, bqRows>>
       \/ /\ Log("create_table", 1)
          /\ bqTables' = bqTables \cup {MainRef}
          /\ bqSchema' = [bqSchema EXCEPT ![MainRef] = SchemaFromJson]
          /\ bqRows' = NoRows
          /\ pc' = "create_temp"
          /\ UNCHANGED <<cause, exc>>
    /\ UNCHANGED <<tempRows, callNo, schema_path, rows_to_insert, i, attempt,
                   rows0>>
    /\ UNCHANGED notBQ

\* _create_temp_table, lines 66-71: read the target, create the staging
\* table with the target's schema
CreateTempTable ==
    /\ pc = "create_temp"
    /\ \/ /\ Log("get_main", 0)
          /\ RaiseInTry(Exc("GoogleAPIError", "get_table failed"))
          /\ UNCHANGED <<bqTables, bqSchema, i>>
       \/ /\ Log("create_temp", 0)
          /\ RaiseInTry(Exc("GoogleAPIError", "create_table failed"))
          /\ UNCHANGED <<bqTables, bqSchema, i>>
       \/ /\ MainRef \in bqTables
          /\ Log("create_temp", 1)
          /\ bqTables' = bqTables \cup {full_temp_table_ref}
          /\ bqSchema' = [bqSchema EXCEPT
                             ![full_temp_table_ref] = bqSchema[MainRef]]
          /\ i' = 0
          /\ pc' = "verify"
          /\ UNCHANGED <<cause, exc>>
    /\ UNCHANGED <<bqRows, tempRows, callNo, schema_path, rows_to_insert,
                   attempt, rows0>>
    /\ UNCHANGED notBQ

\* _create_temp_table, lines 77-86: sleep, then poll; return on success
VerifyPoll ==
    /\ pc = "verify"
    /\ VerifyContinues(i)
    /\ \/ /\ full_temp_table_ref \in bqTables
          /\ trace' = trace \o <<Ev("sleep", delay_seconds), Ev("poll", 1)>>
          /\ pc' = "get_temp"
          /\ UNCHANGED i
       \/ /\ trace' = trace \o <<Ev("sleep", delay_seconds), Ev("poll", 0)>>
          /\ i' = i + 1
          /\ UNCHANGED pc
    /\ UNCHANGED <<bqTables, bqSchema, bqRows, tempRows, callNo, schema_path,
                   rows_to_insert, attempt, cause, exc, rows0>>
    /\ UNCHANGED notBQ

\* _create_temp_table, lines 88-94: no poll succeeded
VerifyFailed ==
    /\ pc = "verify"
    /\ ~VerifyContinues(i)
    /\ Log("raise", 0)
    /\ RaiseInTry(Exc("Exception", "Could not verify the existence of table"))
    /\ UNCHANGED <<bqTables, bqSchema, bqRows, tempRows, callNo, schema_path,
                   rows_to_insert, i, attempt, rows0>>
    /\ UNCHANGED notBQ

\* line 296: temp_table = self.client.get_table(full_temp_table_ref)
GetTempTable ==
    /\ pc = "get_temp"
    /\ \/ /\ full_temp_table_ref \in bqTables
          /\ Log("get_temp", 1)
          /\ pc' = "insert_config"
          /\ UNCHANGED <<cause, exc>>
       \/ /\ Log("get_temp", 0)
          /\ RaiseInTry(Exc("GoogleAPIError", "get_table failed"))
    /\ UNCHANGED <<bqTables, bqSchema, bqRows, tempRows, callNo, schema_path,
                   rows_to_insert, i, attempt, rows0>>
    /\ UNCHANGED notBQ

\* _insert_into_temp_table, lines 127-140: the job configuration; the
\* schema file is read when a schema_path was given
InsertConfig ==
    /\ pc = "insert_config"
    /\ \/ /\ schema_path
          /\ Log("load_schema", 0)
          /\ RaiseInTry(Exc("Exception", "Could not load schema from path"))
          /\ UNCHANGED attempt
       \/ /\ Log("load_schema", IF schema_path THEN 1 ELSE 2)
          /\ attempt' = 0
          /\ pc' = "load"
          /\ UNCHANGED <<cause, exc>>
    /\ UNCHANGED <<bqTables, bqSchema, bqRows, tempRows, callNo, schema_path,
                   rows_to_insert, i, rows0>>
    /\ UNCHANGED notBQ

\* _insert_into_temp_table, lines 142-162: one load job; return on
\* success, sleep 2**attempt after a failure. A successful append job leaves
\* the staging table with the rows and with the schema the job settled on.
LoadAttempt ==
    /\ pc = "load"
    /\ LoadContinues(attempt)
    /\ \/ /\ full_temp_table_ref \in bqTables
          /\ \E s \in Schemas :
                bqSchema' = [bqSchema EXCEPT ![full_temp_table_ref] = s]
          /\ tempRows' = MergeRows(tempRows, rows_to_insert)
          /\ Log("load_job", 1)
          /\ pc' = "compare"
          /\ UNCHANGED attempt
       \/ /\ trace' = trace \o <<Ev("load_job", 0), Ev("sleep", BackOff(attempt))>>
          /\ attempt' = attempt + 1
          /\ UNCHANGED <<bqSchema, tempRows, pc>>
    /\ UNCHANGED <<bqTables, bqRows, callNo, schema_path, rows_to_insert, i,
                   cause, exc, rows0>>
    /\ UNCHANGED notBQ

\* _insert_into_temp_table, lines 164-167: every attempt failed
LoadExhausted ==
    /\ pc = "load"
    /\ ~LoadContinues(attempt)
    /\ Log("raise", 0)
    /\ RaiseInTry(Exc("Exception", "Could not insert rows into temp table"))
    /\ UNCHANGED <<bqTables, bqSchema, bqRows, tempRows, callNo, schema_path,
                   rows_to_insert, i, attempt, rows0>>
    /\ UNCHANGED notBQ

\* lines 305-308 with _fetch_and_compare_schemas (180-187); the compare
\* event records whether the two schemas read were equal
FetchAndCompareSchemas ==
    /\ pc = "compare"
    /\ \/ /\ Log("get_schemas", 0)
          /\ RaiseInTry(Exc("GoogleAPIError", "get_table failed"))
       \/ /\ MainRef \in bqTables
          /\ full_temp_table_ref \in bqTables
          /\ Log("compare",
                 IF bqSchema[MainRef] = bqSchema[full_temp_table_ref]
                    THEN 1 ELSE 0)
          /\ IF SchemasMatch(bqSchema[MainRef], bqSchema[full_temp_table_ref])
                THEN pc' = "generate_merge" /\ UNCHANGED <<cause, exc>>
                ELSE RaiseInTry(Exc("ValueError", "Mismatched table schemas"))
    /\ UNCHANGED <<bqTables, bqSchema, bqRows, tempRows, callNo, schema_path,
                   rows_to_insert, i, attempt, rows0>>
    /\ UNCHANGED notBQ

\* lines 311-315 with _generate_sql_merge (201-221): reads the target's
\* schema and builds the statement
GenerateSqlMerge ==
    /\ pc = "generate_merge"
    /\ \/ /\ Log("get_main", 0)
          /\ RaiseInTry(Exc("GoogleAPIError", "get_table failed"))
       \/ /\ MainRef \in bqTables
          /\ Log("get_main", 1)
          /\ pc' = "query"
          /\ UNCHANGED <<cause, exc>>
    /\ UNCHANGED <<bqTables, bqSchema, bqRows, tempRows, callNo, schema_path,
                   rows_to_insert, i, attempt, rows0>>
    /\ UNCHANGED notBQ

\* lines 316-319: submit the MERGE and wait for it
RunMerge ==
    /\ pc = "query"
    /\ \/ /\ Log("query", 0)
          /\ RaiseInTry(Exc("GoogleAPIError", "query failed"))
          /\ UNCHANGED bqRows
       \/ /\ MainRef \in bqTables
          /\ full_temp_table_ref \in bqTables
          /\ Log("query", 1)
          /\ bqRows' = MergeRows(bqRows, tempRows)
          /\ pc' = "finally"
          /\ UNCHANGED <<cause, exc>>
    /\ UNCHANGED <<bqTables, bqSchema, tempRows, callNo, schema_path,
                   rows_to_insert, i, attempt, rows0>>
    /\ UNCHANGED notBQ

\* lines 320-322: except Exception as e: raise UpsertRequestError(418, ...)
Except ==
    /\ pc = "except"
    /\ exc' = WrapUpsertError(cause)
    /\ pc' = ExceptTarget
    /\ UNCHANGED <<bqTables, bqSchema, bqRows, tempRows, callNo, schema_path,
                   rows_to_insert, i, attempt, cause, trace, rows0>>
    /\ UNCHANGED notBQ

\* lines 323-324: finally: self.client.delete_table(full_temp_table_ref).
\* delete_table raises NotFound for a table that does not exist; an
\* exception raised here replaces the one in flight.
Finally ==
    /\ pc = "finally"
    /\ \/ /\ full_temp_table_ref \in bqTables
          /\ Log("delete_table", 1)
          /\ bqTables' = bqTables \ {full_temp_table_ref}
          /\ bqSchema' = [bqSchema EXCEPT ![full_temp_table_ref] = "none"]
          /\ UNCHANGED <<cause, exc>>
       \/ /\ full_temp_table_ref \in bqTables
          /\ Log("delete_table", 0)
          /\ exc' = RaisedInFinally(
                        Exc("GoogleAPIError", "delete_table failed"), exc)
          /\ cause' = IF cause = NoExc THEN exc' ELSE cause
          /\ UNCHANGED <<bqTables, bqSchema>>
       \/ /\ full_temp_table_ref \notin bqTables
          /\ Log("delete_table", 0)
          /\ exc' = RaisedInFinally(Exc("NotFound", "Not found: Table"), exc)
          /\ cause' = IF cause = NoExc THEN exc' ELSE cause
          /\ UNCHANGED <<bqTables, bqSchema>>
    /\ pc' = "done"
    /\ UNCHANGED <<bqRows, tempRows, callNo, schema_path, rows_to_insert, i,
                   attempt, rows0>>
    /\ UNCHANGED notBQ

\* the call has returned or raised: its frame is gone and the controller is
\* free for the next call
Return ==
    /\ pc = "done"
    /\ pc' = "idle"
    /\ schema_path' = FALSE
    /\ rows_to_insert' = NoRows
    /\ tempRows' = NoRows
    /\ i' = 0
    /\ attempt' = 0
    /\ cause' = NoExc
    /\ exc' = NoExc
    /\ trace' = <<>>
    /\ rows0' = NoRows
    /\ UNCHANGED <<bqTables, bqSchema, bqRows, callNo>>
    /\ UNCHANGED notBQ

NextBQ ==
    \/ UpsertRows
    \/ TableExists
    \/ CreateNewTable
    \/ CreateTempTable
    \/ VerifyPoll
    \/ VerifyFailed
    \/ GetTempTable
    \/ InsertConfig
    \/ LoadAttempt
    \/ LoadExhausted
    \/ FetchAndCompareSchemas
    \/ GenerateSqlMerge
    \/ RunMerge
    \/ Except
    \/ Finally
    \/ Return

(***************************************************************************)
(* BigQuery: properties of upsert_rows (checked under SpecBQ).             *)
(***************************************************************************)
\* positions of the events of one kind in the running call's trace
At(op) == {n \in 1..Len(trace) : trace[n].op = op}
Happened(op, arg) == \E n \in 1..Len(trace) : trace[n] = Ev(op, arg)
\* the call has returned or raised
CallOver == pc = "done"
\* the staging deletion of line 324 itself failed on an existing table
DeleteFailed == Happened("delete_table", 0)
\* _fetch_and_compare_schemas read two schemas that differ
MismatchFound == Happened("compare", 0)

\* C1: after a call has returned or raised -- on success or after a failure
\* in staging creation, verification, the bulk load, the schema comparison
\* or the MERGE -- the staging table of that call no longer exists. (The
\* claim's cases do not include a failure of the deletion itself.)
C1_StagingGoneAfterCall ==
    (CallOver /\ ~DeleteFailed) => full_temp_table_ref \notin bqTables

\* C1 witness: a call whose staging table was created, that failed in a
\* later step, and that has ended with the staging table deleted
C1_Witness ==
    /\ CallOver
    /\ Happened("create_temp", 1)
    /\ Happened("delete_table", 1)
    /\ exc.type = "UpsertRequestError"
    /\ full_temp_table_ref \notin bqTables

\* C6: when the schemas read by _fetch_and_compare_schemas differ, no MERGE
\* query is submitted and the target's rows are those it had when the call
\* started
C6_MismatchBlocksMerge ==
    MismatchFound => (At("query") = {} /\ bqRows = rows0)

\* C6 witness: a finished call that found a mismatch although merging its
\* rows would have changed the target
C6_Witness ==
    /\ CallOver
    /\ MismatchFound
    /\ MergeRows(rows0, rows_to_insert) # rows0

\* C7 (as stated): on a schema mismatch the caller receives a ValueError
C7_CallerGetsValueError ==
    (CallOver /\ MismatchFound) => exc.type = "ValueError"

\* C7 (amended): on a schema mismatch the ValueError of
\* _fetch_and_compare_schemas is caught inside upsert_rows and the caller
\* receives UpsertRequestError with status_code 418 whose content carries
\* the text "Mismatched table schemas" -- unless the staging deletion then
\* fails, whose exception reaches the caller instead
C7_CallerGetsWrappedMismatch ==
    (CallOver /\ MismatchFound) =>
        IF DeleteFailed
           THEN exc = Exc("GoogleAPIError", "delete_table failed")
           ELSE /\ exc.type = "UpsertRequestError"
                /\ exc.status_code = 418
                /\ \E n \in 1..Len(exc.content) :
                      exc.content[n] = "Mismatched table schemas"

\* C7 witness: a finished call that found a mismatch and delivered the
\* wrapped error
C7_Witness ==
    /\ CallOver
    /\ MismatchFound
    /\ ~DeleteFailed
    /\ exc.type = "UpsertRequestError"

\* C8 (as stated): whenever the call fails, at any step from the existence
\* check of the target through the staging cleanup, the caller receives
\* UpsertRequestError with status_code 418 whose content contains the text
\* of the underlying cause
C8_EveryFailureIsUpsertRequestError ==
    (CallOver /\ exc # NoExc) =>
        /\ exc.type = "UpsertRequestError"
        /\ exc.status_code = 418
        /\ \E n \in 1..Len(exc.content) : <<exc.content[n]>> = cause.content

\* C9: _insert_into_temp_table submits at most max_retries = 5 load jobs; a
\* job that succeeds is the last one and is followed by no sleep; after five
\* failed jobs the helper raises ("Could not insert rows ...") and the call
\* goes on to no later step of the try block
C9_BoundedLoadRetries ==
    /\ Cardinality(At("load_job")) <= 5
    /\ \A n \in At("load_job") :
          trace[n].arg = 1 =>
             \A m \in At("load_job") \cup At("sleep") : m <= n
    /\ (Cardinality({n \in At("load_job") : trace[n].arg = 0}) = 5
        /\ pc # "load") =>
          /\ cause = Exc("Exception", "Could not insert rows into temp table")
          /\ pc \in {"except", "finally", "done"}
          /\ At("compare") \cup At("query") = {}

\* C9 witness: five load jobs failed and the helper has raised
C9_Witness ==
    /\ Cardinality({n \in At("load_job") : trace[n].arg = 0}) = 5
    /\ pc = "except"

\* C10: after the create of the staging table, _create_temp_table polls at
\* most 2 times, every poll directly after a sleep of 3 seconds; a poll that
\* succeeds is the last one; after two failed polls it raises ("Could not
\* verify ...") and the call goes on to no later step of the try block
C10_BoundedVerification ==
    /\ Cardinality(At("poll")) <= 2
    /\ \A n \in At("poll") :
          /\ n > 1
          /\ trace[n - 1] = Ev("sleep", 3)
          /\ \E m \in 1..(n - 1) : trace[m] = Ev("create_temp", 1)
          /\ trace[n].arg = 1 => \A m \in At("poll") : m <= n
    /\ (Cardinality({n \in At("poll") : trace[n].arg = 0}) = 2
        /\ pc # "verify") =>
          /\ cause = Exc("Exception", "Could not verify the existence of table")
          /\ pc \in {"except", "finally", "done"}
          /\ At("get_temp") \cup At("load_job") = {}

\* C10 witness: both polls failed and the helper has raised
C10_Witness ==
    /\ Cardinality({n \in At("poll") : trace[n].arg = 0}) = 2
    /\ pc = "except"

\* the place of an event among the steps of upsert_rows: 1 existence check
\* of the target, 2 creation of the target, 3 staging creation and
\* verification, 4 bulk load, 5 schema comparison, 6 MERGE, 7 staging
\* deletion; 0 for events that belong to no single step (sleeps, reads of
\* the schema file, reads of the target)
StepRank(e) ==
    CASE e.op = "get_table" -> 1
      [] e.op = "create_table" -> 2
      [] e.op \in {"create_temp", "poll", "get_temp"} -> 3
      [] e.op = "load_job" -> 4
      [] e.op \in {"get_schemas", "compare"} -> 5
      [] e.op = "query" -> 6
      [] e.op = "delete_table" -> 7
      [] OTHER -> 0
\* the steps so far are in the order of the list, the target is created
\* only after the existence check found it absent, and a MERGE was
\* submitted only after a successful poll, a successful load and a
\* comparison of equal schemas, in that order
StepsInOrder ==
    /\ \A n, m \in 1..Len(trace) :
          (n < m /\ StepRank(trace[n]) > 0 /\ StepRank(trace[m]) > 0) =>
              StepRank(trace[n]) <= StepRank(trace[m])
    /\ \A n \in At("create_table") :
          \E m \in 1..(n - 1) : trace[m] = Ev("get_table", 0)
    /\ \A n \in At("query") :
          \E a, b, c \in 1..(n - 1) :
              /\ a < b /\ b < c
              /\ trace[a] = Ev("poll", 1)
              /\ trace[b] = Ev("load_job", 1)
              /\ trace[c] = Ev("compare", 1)
\* once a step has failed, the call issues nothing more except the staging
\* deletion
FailureStopsLaterSteps ==
    cause # NoExc =>
        \/ trace' = trace
        \/ trace' = <<>>
        \/ \E ok \in {0, 1} : trace' = Append(trace, Ev("delete_table", ok))

\* C23: the steps of upsert_rows occur in the order existence check, target
\* creation if absent, staging creation and verification, bulk load, schema
\* comparison, MERGE, staging deletion; a failed step is followed by no
\* later step except the staging deletion, so a MERGE is submitted only
\* after verification, load and schema comparison have all succeeded
C23_StepsInOrder == [] StepsInOrder /\ [][FailureStopsLaterSteps]_vars

\* C23 witness: a finished call that went through every step of the list
C23_Witness ==
    /\ CallOver
    /\ Happened("create_table", 1)
    /\ Happened("poll", 1)
    /\ Happened("load_job", 0)
    /\ Happened("load_job", 1)
    /\ Happened("compare", 1)
    /\ Happened("query", 1)
    /\ Happened("delete_table", 1)

\* the running call is past the existence check and the target is absent
TargetFoundAbsent ==
    /\ pc \notin {"idle", "table_exists"}
    /\ MainRef \notin bqTables
\* events of the staging table of the running call
StagingEvents ==
    At("get_main") \cup At("create_temp") \cup At("poll") \cup At("get_temp")
        \cup At("load_job") \cup At("delete_table")

\* C24: when the target does not exist -- with a schema_path the target is
\* created from that schema before any staging table is created; without a
\* schema_path the call fails at once, the target is not created and no
\* staging table is created or deleted
C24_AbsentTarget ==
    /\ (TargetFoundAbsent /\ schema_path) =>
          /\ pc \in {"create_new_table", "done"}
          /\ StagingEvents = {}
          /\ full_temp_table_ref \notin bqTables
    /\ (schema_path /\ Happened("get_table", 0) /\ StagingEvents # {}) =>
          /\ \E n \in At("create_table") :
                /\ trace[n] = Ev("create_table", 1)
                /\ \A m \in StagingEvents : n < m
          /\ MainRef \in bqTables
          /\ bqSchema[MainRef] = "A"
    /\ (TargetFoundAbsent /\ ~schema_path) =>
          /\ pc = "done"
          /\ exc.type \in {"ValueError", "GoogleAPIError"}
          /\ trace = <<Ev("get_table", 0)>>
          /\ full_temp_table_ref \notin bqTables
    /\ (~schema_path /\ pc # "idle") => At("create_table") = {}

\* C24 witness: a call without schema_path on an absent target has failed
\* with the ValueError of line 282
C24_Witness ==
    /\ CallOver
    /\ ~schema_path
    /\ MainRef \notin bqTables
    /\ exc.type = "ValueError"

\* the running call has entered the try block of line 289
PastTargetStep == At("get_main") \cup At("create_temp") # {}

\* C28: in a call that is past the existence and creation of the target,
\* delete_table is issued exactly once for the staging reference of the
\* call and after every other step, also when the staging table was never
\* created; when that delete raises, its exception reaches the caller in
\* place of an UpsertRequestError raised earlier
C28_DeleteOnceAndLast ==
    /\ (PastTargetStep /\ ~CallOver) => At("delete_table") = {}
    /\ ~PastTargetStep => At("delete_table") = {}
    /\ (PastTargetStep /\ CallOver) =>
          /\ At("delete_table") = {Len(trace)}
          /\ trace[Len(trace)] = Ev("delete_table", 0) =>
                exc.type \in {"NotFound", "GoogleAPIError"}
          /\ trace[Len(trace)] = Ev("delete_table", 1) =>
                exc \in {NoExc, WrapUpsertError(cause)}

\* C28 witness: the creation of the staging table failed, the delete found
\* no table, and its NotFound replaced the UpsertRequestError in flight
C28_Witness ==
    /\ CallOver
    /\ Happened("create_temp", 0)
    /\ At("delete_table") = {Len(trace)}
    /\ Cardinality(At("create_temp")) = 1
    /\ exc.type = "NotFound"
    /\ cause.type = "GoogleAPIError"

\* the failed load jobs of the running call, and the sleeps of the loop of
\* line 142 (a sleep of that loop directly follows its load job)
FailedLoads == {n \in At("load_job") : trace[n].arg = 0}
LoadSleeps == {n \in At("sleep") : n > 1 /\ trace[n - 1].op = "load_job"}
RECURSIVE SleptSeconds(_)
SleptSeconds(ns) ==
    IF ns = {} THEN 0
    ELSE LET n == CHOOSE x \in ns : TRUE
         IN trace[n].arg + SleptSeconds(ns \ {n})

\* C29: the sleep after the k-th failed load attempt (k = 0, 1, ...) is
\* 2^k seconds and is taken after the last failed attempt too, so with
\* max_retries = 5 the waits are 1, 2, 4, 8, 16 seconds, 31 in all, before
\* the exception is raised; no sleep follows a successful attempt
C29_ExponentialBackOff ==
    /\ \A n \in FailedLoads :
          /\ n < Len(trace)
          /\ trace[n + 1] =
                Ev("sleep", 2 ^ Cardinality({m \in FailedLoads : m < n}))
    /\ \A n \in At("load_job") :
          trace[n].arg = 1 => (n + 1) \notin At("sleep")
    /\ LoadSleeps = {n + 1 : n \in FailedLoads}
    /\ (Happened("raise", 0) /\ At("load_job") # {}) =>
          /\ Cardinality(FailedLoads) = 5
          /\ \E n \in 1..Len(trace) :
                /\ n + 10 <= Len(trace)
                /\ [k \in 1..5 |-> trace[n + 2 * k - 1].arg] = <<1, 2, 4, 8, 16>>
                /\ \A k \in 1..5 : trace[n + 2 * k - 2] = Ev("load_job", 0)
                /\ trace[n + 10] = Ev("raise", 0)
          /\ SleptSeconds(LoadSleeps) = 31

\* C29 witness: a call in which all five load attempts failed has ended
C29_Witness ==
    /\ CallOver
    /\ Cardinality(FailedLoads) = 5
    /\ SleptSeconds(LoadSleeps) = 31
    /\ cause = Exc("Exception", "Could not insert rows into temp table")

(***************************************************************************)
(* BigQuery: two upsert_rows calls running at the same time against one    *)
(* target table that exists. Every call has its own frame (its staging     *)
(* reference, its loop counters); the tables of the dataset are shared.    *)
(* A staging table holds the rows of the calls that loaded into it, and a  *)
(* MERGE moves what its staging table holds into the target.               *)
(***************************************************************************)
Procs == {1, 2}
\* the values uuid.uuid4() may return; 0 stands for no reference yet
Uuids == 1..MaxUuids
\* lines 285-288: f"{table_ref}_temp_{uuid4 without dashes}"; the target is
\* the same for both calls, so the reference is told apart by the uuid
StagingRefWithoutUuid(u) == 1
StagingRef(u) == u

\* a client call on a table reference, as the dataset sees it
Op(p, op, ref) == [proc |-> p, op |-> op, ref |-> ref]
\* an exception inside the try block of call p: on to the except clause
CRaise(p) == cpc' = [cpc EXCEPT ![p] = "except"]

InitConc ==
    /\ cTables = {}
    /\ cStaged = [r \in Uuids |-> {}]
    /\ cMerged = [p \in Procs |-> {}]
    /\ cpc = [p \in Procs |-> "idle"]
    /\ cref = [p \in Procs |-> 0]
    /\ cI = [p \in Procs |-> 0]
    /\ cAttempt = [p \in Procs |-> 0]
    /\ usedIds = {}
    /\ cOps = {}

\* lines 277-288: the target exists; the call names its staging table.
\* uuid4 draws 122 random bits: a value drawn before is not drawn again.
ConcName ==
    \E p \in Procs :
        /\ cpc[p] = "idle"
        /\ \E u \in Uuids \ usedIds :
              /\ usedIds' = usedIds \cup {u}
              /\ cref' = [cref EXCEPT ![p] = StagingRef(u)]
        /\ cpc' = [cpc EXCEPT ![p] = "create_temp"]
        /\ UNCHANGED <<cTables, cStaged, cMerged, cI, cAttempt, cOps>>
        /\ UNCHANGED notConc

\* _create_temp_table, lines 66-71: create_table raises Conflict for a
\* table that exists
ConcCreateTempTable ==
    \E p \in Procs :
        /\ cpc[p] = "create_temp"
        /\ cOps' = cOps \cup {Op(p, "create", cref[p])}
        /\ \/ /\ cref[p] \notin cTables
              /\ cTables' = cTables \cup {cref[p]}
              /\ cpc' = [cpc EXCEPT ![p] = "verify"]
           \/ /\ CRaise(p)
              /\ UNCHANGED cTables
        /\ UNCHANGED <<cStaged, cMerged, cref, cI, cAttempt, usedIds>>
        /\ UNCHANGED notConc

\* _create_temp_table, lines 77-94: the polls of the staging reference
ConcVerify ==
    \E p \in Procs :
        /\ cpc[p] = "verify"
        /\ IF VerifyContinues(cI[p])
              THEN /\ cOps' = cOps \cup {Op(p, "read", cref[p])}
                   /\ \/ /\ cref[p] \in cTables
                         /\ cpc' = [cpc EXCEPT ![p] = "get_temp"]
                         /\ UNCHANGED cI
                      \/ /\ cI' = [cI EXCEPT ![p] = cI[p] + 1]
                         /\ UNCHANGED cpc
              ELSE /\ CRaise(p)
                   /\ UNCHANGED <<cOps, cI>>
        /\ UNCHANGED <<cTables, cStaged, cMerged, cref, cAttempt, usedIds>>
        /\ UNCHANGED notConc

\* line 296: temp_table = self.client.get_table(full_temp_table_ref)
ConcGetTempTable ==
    \E p \in Procs :
        /\ cpc[p] = "get_temp"
        /\ cOps' = cOps \cup {Op(p, "read", cref[p])}
        /\ \/ /\ cref[p] \in cTables
              /\ cpc' = [cpc EXCEPT ![p] = "load"]
           \/ CRaise(p)
        /\ UNCHANGED <<cTables, cStaged, cMerged, cref, cI, cAttempt, usedIds>>
        /\ UNCHANGED notConc

\* _insert_into_temp_table, lines 142-167: the load jobs into temp_table
ConcLoad ==
    \E p \in Procs :
        /\ cpc[p] = "load"
        /\ IF LoadContinues(cAttempt[p])
              THEN /\ cOps' = cOps \cup {Op(p, "load", cref[p])}
                   /\ \/ /\ cref[p] \in cTables
                         /\ cStaged' = [cStaged EXCEPT
                                          ![cref[p]] = cStaged[cref[p]] \cup {p}]
                         /\ cpc' = [cpc EXCEPT ![p] = "compare"]
                         /\ UNCHANGED cAttempt
                      \/ /\ cAttempt' = [cAttempt EXCEPT ![p] = cAttempt[p] + 1]
                         /\ UNCHANGED <<cStaged, cpc>>
              ELSE /\ CRaise(p)
                   /\ UNCHANGED <<cOps, cStaged, cAttempt>>
        /\ UNCHANGED <<cTables, cMerged, cref, cI, usedIds>>
        /\ UNCHANGED notConc

\* lines 305-308: _fetch_and_compare_schemas reads the target and the
\* staging table
ConcCompare ==
    \E p \in Procs :
        /\ cpc[p] = "compare"
        /\ cOps' = cOps \cup {Op(p, "read", cref[p])}
        /\ \/ /\ cref[p] \in cTables
              /\ cpc' = [cpc EXCEPT ![p] = "merge"]
           \/ CRaise(p)
        /\ UNCHANGED <<cTables, cStaged, cMerged, cref, cI, cAttempt, usedIds>>
        /\ UNCHANGED notConc

\* lines 311-317: the MERGE ... USING full_temp_table_ref
ConcMerge ==
    \E p \in Procs :
        /\ cpc[p] = "merge"
        /\ cOps' = cOps \cup {Op(p, "merge", cref[p])}
        /\ \/ /\ cref[p] \in cTables
              /\ cMerged' = [cMerged EXCEPT
                               ![p] = cMerged[p] \cup cStaged[cref[p]]]
              /\ cpc' = [cpc EXCEPT ![p] = "finally"]
           \/ /\ CRaise(p)
              /\ UNCHANGED cMerged
        /\ UNCHANGED <<cTables, cStaged, cref, cI, cAttempt, usedIds>>
        /\ UNCHANGED notConc

\* lines 320-322
ConcExcept ==
    \E p \in Procs :
        /\ cpc[p] = "except"
        /\ cpc' = [cpc EXCEPT ![p] = "finally"]
        /\ UNCHANGED <<cTables, cStaged, cMerged, cref, cI, cAttempt, usedIds,
                       cOps>>
        /\ UNCHANGED notConc

\* lines 323-324: delete_table(full_temp_table_ref) deletes the table, or
\* fails and leaves it, or finds none
ConcFinally ==
    \E p \in Procs :
        /\ cpc[p] = "finally"
        /\ cOps' = cOps \cup {Op(p, "delete", cref[p])}
        /\ \/ /\ cref[p] \in cTables
              /\ cTables' = cTables \ {cref[p]}
              /\ cStaged' = [cStaged EXCEPT ![cref[p]] = {}]
           \/ UNCHANGED <<cTables, cStaged>>
        /\ cpc' = [cpc EXCEPT ![p] = "done"]
        /\ UNCHANGED <<cMerged, cref, cI, cAttempt, usedIds>>
        /\ UNCHANGED notConc

NextConc ==
    \/ ConcName
    \/ ConcCreateTempTable
    \/ ConcVerify
    \/ ConcGetTempTable
    \/ ConcLoad
    \/ ConcCompare
    \/ ConcMerge
    \/ ConcExcept
    \/ ConcFinally

(***************************************************************************)
(* Concurrent upserts: properties (checked under SpecConc).                *)
(***************************************************************************)
\* C21: when two upsert_rows calls run at the same time against one target,
\* each call creates, reads, loads, merges from and deletes only the
\* staging table it named itself: no client call of one call is on the
\* staging reference of the other, a staging table holds only the rows of
\* the call that named it, and a MERGE moves only its own call's rows
C21_StagingTablesAreApart ==
    /\ \A o \in cOps :
          /\ o.ref = cref[o.proc]
          /\ \A q \in Procs \ {o.proc} : o.ref # cref[q]
    /\ \A p, q \in Procs : (p # q /\ cref[p] # 0) => cref[p] # cref[q]
    /\ \A r \in Uuids : cStaged[r] \subseteq {p \in Procs : cref[p] = r}
    /\ \A p \in Procs : cMerged[p] \subseteq {p}

\* C21 witness: both staging tables exist at once; one call has merged its
\* rows and is about to delete its table while the other is about to merge
C21_Witness ==
    \E p, q \in Procs :
        /\ p # q
        /\ {cref[p], cref[q]} \subseteq cTables
        /\ cpc[p] = "finally" /\ cMerged[p] = {p}
        /\ cpc[q] = "merge" /\ cStaged[cref[q]] = {q}
        /\ Op(p, "merge", cref[p]) \in cOps

(***************************************************************************)
(* Cloud SQL: value universes. A row dict maps every column of ColSet to   *)
(* the value it carries, or to "absent" when the dict has no such key; the *)
(* keys of a dict are taken in the order of ColOrder. Every row carries    *)
(* the key column "id" (the key set is a subset of the row's columns).     *)
(***************************************************************************)
ColOrder == <<"id", "name", "tag">>
ColSet == {"id", "name", "tag"}
\* the Python ints 1 and 2
Ids == {"1", "2"}
\* Python strings that dateutil parses as no date
Names == {"ann", "zoe"}
\* the Python int 5, a UNIX timestamp in seconds
Stamps == {"5"}
Dicts ==
    {[c \in ColSet |-> CASE c = "id" -> t[1] [] c = "name" -> t[2]
                         [] OTHER -> t[3]] :
        t \in Ids \X (Names \cup {"absent"}) \X (Stamps \cup {"absent"})}
DataLists == UNION {[1..n -> Dicts] : n \in 0..MaxBatch}
PrimaryKeyChoices == {<<"id">>, <<"id", "name">>}
ConflictActions == {"ignore", "update", "replace"}
TimestampColumnChoices == {<<>>, <<"tag">>}

Range(f) == {f[n] : n \in DOMAIN f}
EmptyBag == [r \in {} |-> 0]

(***************************************************************************)
(* Cloud SQL: the pure helpers of cloud_sql_controller.py.                 *)
(***************************************************************************)
\* format_to_sql_dt, lines 201-207: an int is a UNIX timestamp and becomes
\* the formatted UTC time; any other value of the universe is returned as is
format_to_sql_dt(v) ==
    CASE v = "1" -> "1970-01-01 00:00:01.000000"
      [] v = "2" -> "1970-01-01 00:00:02.000000"
      [] v = "5" -> "1970-01-01 00:00:05.000000"
      [] OTHER -> v

\* recursive_fix_time_format, lines 222-227 (the universe has no nested dict)
recursive_fix_time_format(data, ts_columns) ==
    [c \in ColSet |->
        IF data[c] # "absent" /\ c \in Range(ts_columns)
           THEN format_to_sql_dt(data[c])
           ELSE data[c]]

(***************************************************************************)
(* Python values as infer_data_type sees them: the class of the value, the *)
(* number of an int or bool, the characters of a str, the elements of a    *)
(* list.                                                                   *)
(***************************************************************************)
\* A Python int is unbounded: the int hi * 2^16 + lo, with 0 <= lo < 2^16,
\* is the pair of hi and lo.
HalfWord == 65536
BigInt(hi, lo) == [hi |-> hi, lo |-> lo]
SmallInt(n) == BigInt(0, n)
BigLeq(a, b) == a.hi < b.hi \/ (a.hi = b.hi /\ a.lo <= b.lo)
BigLess(a, b) == a.hi < b.hi \/ (a.hi = b.hi /\ a.lo < b.lo)
\* line 34: the literals -2147483648 and 2147483647
Int32Min == BigInt(-32768, 0)
Int32Max == BigInt(32767, HalfWord - 1)

PyVal(kind, number, text, items) ==
    [kind |-> kind, int |-> number, str |-> text, items |-> items]
IntV(n) == PyVal("int", n, <<>>, <<>>)
BoolV(b) == PyVal("bool", SmallInt(IF b THEN 1 ELSE 0), <<>>, <<>>)
FloatV == PyVal("float", SmallInt(0), <<>>, <<>>)
DateTimeV == PyVal("datetime", SmallInt(0), <<>>, <<>>)
DateV == PyVal("date", SmallInt(0), <<>>, <<>>)
DictV == PyVal("dict", SmallInt(0), <<>>, <<>>)
NoneV == PyVal("NoneType", SmallInt(0), <<>>, <<>>)
StrV(text) == PyVal("str", SmallInt(0), text, <<>>)
ListV(items) == PyVal("list", SmallInt(0), <<>>, items)

\* strings that dateutil parses as no date
S_abc == <<"a", "b", "c">>
S_ann == <<"a", "n", "n">>
S_zoe == <<"z", "o", "e">>
\* numeric strings that dateutil parses as a date at midnight: a day of the
\* month, YYYYMMDD, YYYYMMDDhhmm
S_5 == <<"5">>
S_20240102 == <<"2", "0", "2", "4", "0", "1", "0", "2">>
S_202401020000 ==
    <<"2", "0", "2", "4", "0", "1", "0", "2", "0", "0", "0", "0">>
\* a date, a date with a time of day, and what format_to_sql_dt makes of
\* the ints 1, 2 and 5
S_date == <<"2", "0", "2", "4", "-", "0", "1", "-", "0", "2">>
S_timestamp ==
    <<"2", "0", "2", "4", "-", "0", "1", "-", "0", "2", " ", "0", "3", ":",
      "0", "4", ":", "0", "5">>
S_epoch1 ==
    <<"1", "9", "7", "0", "-", "0", "1", "-", "0", "1", " ", "0", "0", ":",
      "0", "0", ":", "0", "1", ".", "0", "0", "0", "0", "0", "0">>
S_epoch2 ==
    <<"1", "9", "7", "0", "-", "0", "1", "-", "0", "1", " ", "0", "0", ":",
      "0", "0", ":", "0", "2", ".", "0", "0", "0", "0", "0", "0">>
S_epoch5 ==
    <<"1", "9", "7", "0", "-", "0", "1", "-", "0", "1", " ", "0", "0", ":",
      "0", "0", ":", "0", "5", ".", "0", "0", "0", "0", "0", "0">>

\* the Python value of a value of the batch universe
PyValue(v) ==
    CASE v = "1" -> IntV(SmallInt(1))
      [] v = "2" -> IntV(SmallInt(2))
      [] v = "5" -> IntV(SmallInt(5))
      [] v = "ann" -> StrV(S_ann)
      [] v = "zoe" -> StrV(S_zoe)
      [] v = "1970-01-01 00:00:01.000000" -> StrV(S_epoch1)
      [] v = "1970-01-01 00:00:02.000000" -> StrV(S_epoch2)
      [] v = "1970-01-01 00:00:05.000000" -> StrV(S_epoch5)

\* isinstance(value, cls): bool is a subclass of int, datetime.datetime a
\* subclass of datetime.date
IsInstance(v, cls) ==
    CASE cls = "int" -> v.kind \in {"int", "bool"}
      [] cls = "date" -> v.kind \in {"date", "datetime"}
      [] OTHER -> v.kind = cls

\* line 101: dateutil's parse(value) raises, or returns a datetime whose
\* time of day is midnight or is not
dateutil_parse(value) ==
    CASE value \in {S_abc, S_ann, S_zoe} -> "error"
      [] value \in {S_5, S_20240102, S_202401020000, S_date} -> "midnight"
      [] value \in {S_timestamp, S_epoch1, S_epoch2, S_epoch5} -> "time"

\* str.isnumeric (line 104)
Digits == {"0", "1", "2", "3", "4", "5", "6", "7", "8", "9"}
isnumeric(value) ==
    value # <<>> /\ \A n \in 1..Len(value) : value[n] \in Digits

\* infer_string_date_or_timestamp, lines 99-114 ("None" for None)
infer_string_date_or_timestamp(value) ==
    LET parsed_date == dateutil_parse(value)
    IN  IF parsed_date = "error" THEN "None"
        ELSE IF parsed_date = "midnight"
           THEN IF isnumeric(value)
                   THEN IF Len(value) < 10 THEN "INTEGER" ELSE "BIGINT"
                   ELSE "DATE"
           ELSE "TIMESTAMP"

\* line 34: -2147483648 <= value <= 2147483647
InInt32OffByOne(n) == BigLess(Int32Min, n) /\ BigLess(n, Int32Max)
InInt32(n) == BigLeq(Int32Min, n) /\ BigLeq(n, Int32Max)

\* infer_data_type, lines 66-83
PriorityListJsonFirst ==
    <<"JSONB", "TEXT", "TEXT[]", "JSONB[]", "TIMESTAMP[]", "DATE[]", "REAL[]",
      "BIGINT[]", "INTEGER[]", "BOOLEAN[]", "TIMESTAMP", "DATE", "REAL",
      "BIGINT", "INTEGER", "BOOLEAN">>
PriorityList ==
    <<"TEXT", "JSONB", "TEXT[]", "JSONB[]", "TIMESTAMP[]", "DATE[]", "REAL[]",
      "BIGINT[]", "INTEGER[]", "BOOLEAN[]", "TIMESTAMP", "DATE", "REAL",
      "BIGINT", "INTEGER", "BOOLEAN">>

\* lines 66-86: the first type of the priority list that was encountered
\* line 86: return "TEXT" when nothing matched
DefaultTypeNone == "None"
DefaultType == "TEXT"

FirstEncounteredLast(types_encountered) ==
    LET hits == {n \in 1..Len(PriorityList) :
                    PriorityList[n] \in types_encountered}
    IN  IF hits = {} THEN DefaultType
        ELSE PriorityList[CHOOSE n \in hits : \A m \in hits : n >= m]
FirstEncountered(types_encountered) ==
    LET hits == {n \in 1..Len(PriorityList) :
                    PriorityList[n] \in types_encountered}
    IN  IF hits = {} THEN DefaultType
        ELSE PriorityList[CHOOSE n \in hits : \A m \in hits : n <= m]

\* lines 62-63: a value that matches no isinstance test adds TEXT
UnrecognisedTypeIgnored == "NULL"
UnrecognisedType == "TEXT"

RECURSIVE infer_data_type(_)
\* infer_data_type, lines 32-63: the type one value adds to types_encountered
ValueType(value) ==
    IF IsInstance(value, "int")
       THEN IF InInt32(value.int) THEN "INTEGER" ELSE "BIGINT"
    ELSE IF IsInstance(value, "float") THEN "REAL"
    ELSE IF IsInstance(value, "bool") THEN "BOOLEAN"
    ELSE IF IsInstance(value, "date")
       THEN IF IsInstance(value, "datetime") THEN "TIMESTAMP" ELSE "DATE"
    ELSE IF IsInstance(value, "list")
       THEN IF value.items # <<>>
               THEN infer_data_type(value.items) \o "[]"
               ELSE "TEXT[]"
    ELSE IF IsInstance(value, "dict") THEN "JSONB"
    ELSE IF IsInstance(value, "str")
       THEN LET date_or_timestamp ==
                    infer_string_date_or_timestamp(value.str)
            IN  IF date_or_timestamp # "None" THEN date_or_timestamp
                ELSE "TEXT"
    ELSE UnrecognisedType

\* infer_data_type, lines 30-86
infer_data_type(values) ==
    LET types_encountered == {ValueType(values[n]) : n \in 1..Len(values)}
    IN  FirstEncountered(types_encountered)

\* generate_create_table_statement, lines 145-148: the keys of column_values
\* in the order in which they are first seen across the sample (the rows are
\* gone through in order, one half of the sample after the other; once every
\* column has been seen no row adds one)
RECURSIVE ColumnOrder(_, _)
ColumnOrder(sample, seen) ==
    IF Len(seen) = Len(ColOrder) \/ sample = <<>> THEN seen
    ELSE IF Len(sample) = 1
       THEN seen \o SelectSeq(ColOrder,
                       LAMBDA c : Head(sample)[c] # "absent"
                                  /\ c \notin Range(seen))
    ELSE LET half == Len(sample) \div 2
         IN  ColumnOrder(SubSeq(sample, half + 1, Len(sample)),
                         ColumnOrder(SubSeq(sample, 1, half), seen))

\* generate_create_table_statement, lines 151-159: the inline marker
InlinePrimaryKeyNever(column, pks) == FALSE
InlinePrimaryKeyAnyLength(column, pks) == column \in Range(pks)
InlinePrimaryKey(column, pks) == column \in Range(pks) /\ Len(pks) = 1

\* generate_create_table_statement, line 135: if not dict_list
EmptySampleErrorNever(dict_list) == FALSE
EmptySampleError(dict_list) == dict_list = <<>>

\* generate_create_table_statement, line 141: min(1000, len(dict_list))
SampleSizeWhole(n) == n
SampleSize(n) == IF n < SampleLimit THEN n ELSE SampleLimit

\* generate_create_table_statement, lines 135-171: the ValueError for an
\* empty dict_list, or the CREATE TABLE IF NOT EXISTS statement as its
\* column definitions and its composite clause
generate_create_table_statement(dict_list, pks) ==
    IF EmptySampleError(dict_list)
       THEN Exc("ValueError",
                "The list of dictionaries is empty. Cannot generate schema.")
    ELSE
    LET sample_size == SampleSize(Len(dict_list))
        sample_data == SubSeq(dict_list, 1, sample_size)
        column_values(c) ==
            LET having == SelectSeq(sample_data,
                             LAMBDA row : row[c] # "absent")
            IN  [n \in 1..Len(having) |-> PyValue(having[n][c])]
        names == ColumnOrder(sample_data, <<>>)
    IN  [columns |-> [n \in 1..Len(names) |->
                        [name |-> names[n],
                         type |-> infer_data_type(column_values(names[n])),
                         primary_key |-> InlinePrimaryKey(names[n], pks)]],
         composite |-> IF Len(pks) > 1 THEN pks ELSE <<>>]

\* lines 373-386: the ON CONFLICT clause for the two valid actions
OnConflictClauseAlwaysNothing(action, pks, first_row) ==
    [kind |-> "nothing", target |-> <<>>, set |-> <<>>]
OnConflictClause(action, pks, first_row) ==
    IF action = "ignore"
       THEN [kind |-> "nothing", target |-> <<>>, set |-> <<>>]
       ELSE [kind |-> "update", target |-> pks,
             set |-> SelectSeq(ColOrder,
                        LAMBDA c : first_row[c] # "absent"
                                   /\ c \notin Range(pks))]

\* _preprocess_data_for_insert (456-470) and _nested_dict_to_json_string
\* (310-333) change dict and list values only; the universe holds scalars
preprocess_data_for_insert(data, column_types) ==
    [c \in ColSet |-> data[c]]

\* lines 413-416: processed_data.get(col, None) for every catalog column
RowValues(data, column_types) ==
    LET processed_data == preprocess_data_for_insert(data, column_types)
    IN  [c \in ColSet |->
            IF c \in DOMAIN column_types /\ processed_data[c] # "absent"
               THEN processed_data[c]
               ELSE "NULL"]

(***************************************************************************)
(* Cloud SQL: what PostgreSQL does with the statements it is sent.         *)
(***************************************************************************)
\* the udt_name of a column created with an inferred type
UdtName(type) ==
    CASE type = "INTEGER" -> "int4"
      [] type = "TEXT" -> "text"
      [] type = "TIMESTAMP" -> "timestamp"
      [] OTHER -> "other"

\* lines 420-431: %s::<udt_name> -- does the bound value cast to the type
CastOk(v, udt) ==
    CASE v = "NULL" -> TRUE
      [] udt = "text" -> TRUE
      [] udt = "int4" -> v \in Ids \cup Stamps
      [] udt = "timestamp" -> v \notin Ids \cup Stamps \cup Names
      [] OTHER -> FALSE

KeyOf(r, pk) == [c \in pk |-> r[c]]
BagAdd(b, r) ==
    [x \in DOMAIN b \cup {r} |->
        IF x \in DOMAIN b THEN (IF x = r THEN b[x] + 1 ELSE b[x]) ELSE 1]
BagRemove(b, r) ==
    [x \in {y \in DOMAIN b : y # r \/ b[y] > 1} |->
        IF x = r THEN b[x] - 1 ELSE b[x]]
RECURSIVE BagSize(_)
BagSize(b) ==
    IF DOMAIN b = {} THEN 0
    ELSE LET r == CHOOSE x \in DOMAIN b : TRUE
         IN  b[r] + BagSize([x \in DOMAIN b \ {r} |-> b[x]])
\* the copies of rows of the bag whose key columns equal those of v
CopiesWithKey(b, v, pk) ==
    BagSize([x \in {y \in DOMAIN b : KeyOf(y, pk) = KeyOf(v, pk)} |-> b[x]])

\* INSERT ... VALUES row by row. touched: the keys this statement has
\* inserted or updated (ON CONFLICT DO UPDATE may not affect a row twice).
\* The result is the new bag of rows, or ok = FALSE when the statement fails.
RECURSIVE PgInsertRows(_, _, _, _, _, _)
PgInsertRows(rows, touched, values, clause, pk, types) ==
    IF values = <<>> THEN [ok |-> TRUE, rows |-> rows]
    ELSE
      LET v == Head(values)
          castable == \A c \in DOMAIN types : CastOk(v[c], types[c])
          notnull == \A c \in pk : v[c] # "NULL"
          hits == {r \in DOMAIN rows : pk # {} /\ KeyOf(r, pk) = KeyOf(v, pk)}
      IN  IF ~castable \/ ~notnull THEN [ok |-> FALSE, rows |-> rows]
          ELSE IF hits = {}
             THEN PgInsertRows(BagAdd(rows, v), touched \cup {KeyOf(v, pk)},
                               Tail(values), clause, pk, types)
          ELSE IF clause.kind = "nothing"
             THEN PgInsertRows(rows, touched, Tail(values), clause, pk, types)
          ELSE IF KeyOf(v, pk) \in touched
             THEN [ok |-> FALSE, rows |-> rows]
          ELSE LET old == CHOOSE r \in hits : TRUE
                   new == [c \in ColSet |->
                             IF c \in Range(clause.set) THEN v[c] ELSE old[c]]
               IN  PgInsertRows(BagAdd(BagRemove(rows, old), new),
                                touched \cup {KeyOf(v, pk)},
                                Tail(values), clause, pk, types)

\* the INSERT of lines 437-438 against the table: the statement is rejected
\* as a whole when ON CONFLICT (...) names no unique constraint, when the
\* SET list is empty or names a column the table lacks, or when a row fails
PgInsert(rows, values, clause, pk, types) ==
    IF clause.kind = "update"
       /\ (\/ Range(clause.target) # pk
           \/ clause.set = <<>>
           \/ ~(Range(clause.set) \subseteq DOMAIN types))
       THEN [ok |-> FALSE, rows |-> rows]
       ELSE PgInsertRows(rows, {}, values, clause, pk, types)

(***************************************************************************)
(* Cloud SQL: initial state, a fresh database and an idle controller.      *)
(***************************************************************************)
SQLFrameIdle ==
    /\ sqlpc = "idle"
    /\ data_list = <<>>
    /\ primary_keys = <<>>
    /\ on_conflict_action = "ignore"
    /\ timestamp_columns = <<>>
    /\ table_found = FALSE
    /\ on_conflict_clause = [kind |-> "nothing", target |-> <<>>, set |-> <<>>]
    /\ sqlExc = NoExc
    /\ sent = 0
    /\ repeat = FALSE
    /\ firstOk = FALSE
    /\ db0 = [schema |-> FALSE, table |-> FALSE, rows |-> EmptyBag]
    /\ data_list0 = <<>>

InitSQL ==
    /\ dbSchemaExists = FALSE
    /\ dbTableExists = FALSE
    /\ dbCols = <<>>
    /\ dbColTypes = EmptyBag
    /\ dbPK = {}
    /\ dbRows = EmptyBag
    /\ createdWith = <<>>
    /\ txState = "idle"
    /\ inserts = 0
    /\ SQLFrameIdle

dbVars == <<dbSchemaExists, dbTableExists, dbCols, dbColTypes, dbPK, dbRows,
            createdWith>>
argVars == <<primary_keys, on_conflict_action, timestamp_columns>>
histVars == <<inserts, repeat, firstOk, db0, data_list0>>

(***************************************************************************)
(* Cloud SQL: batch_insert, one action per step.                           *)
(***************************************************************************)
\* lines 335-357: a call starts with its arguments; an empty data_list
\* returns at once
BatchInsert ==
    /\ sqlpc = "idle"
    /\ inserts < MaxInserts
    /\ \E dl \in DataLists, pks \in PrimaryKeyChoices,
          action \in ConflictActions, ts \in TimestampColumnChoices :
          /\ data_list' = dl
          /\ data_list0' = dl
          /\ primary_keys' = pks
          /\ on_conflict_action' = action
          /\ timestamp_columns' = ts
          /\ sqlpc' = IF dl = <<>> THEN "done" ELSE "does_table_exist"
    /\ inserts' = inserts + 1
    /\ repeat' = FALSE
    /\ firstOk' = FALSE
    /\ db0' = [schema |-> dbSchemaExists, table |-> dbTableExists,
               rows |-> dbRows]
    /\ sent' = 0
    /\ sqlExc' = NoExc
    /\ UNCHANGED <<dbVars, txState, table_found, on_conflict_clause>>
    /\ UNCHANGED notSQL

\* the caller calls batch_insert again with the same list object and the
\* same other arguments
Repeat ==
    /\ sqlpc = "done"
    /\ ~repeat
    /\ data_list # <<>>
    /\ repeat' = TRUE
    /\ firstOk' = (sqlExc = NoExc)
    /\ data_list0' = data_list
    /\ db0' = [schema |-> dbSchemaExists, table |-> dbTableExists,
               rows |-> dbRows]
    /\ sent' = 0
    /\ sqlExc' = NoExc
    /\ sqlpc' = "does_table_exist"
    /\ UNCHANGED <<dbVars, txState, data_list, argVars, table_found,
                   on_conflict_clause, inserts>>
    /\ UNCHANGED notSQL

\* line 359 with does_table_exist (297-308): a failing query (the connection
\* is in an aborted transaction) is answered with False
DoesTableExist ==
    /\ sqlpc = "does_table_exist"
    /\ sent' = sent + 1
    /\ IF txState = "aborted"
          THEN table_found' = FALSE /\ UNCHANGED txState
          ELSE table_found' = dbTableExists /\ txState' = "open"
    /\ sqlpc' = IF table_found' THEN "fix_time" ELSE "ensure_schema"
    /\ UNCHANGED <<dbVars, data_list, argVars, on_conflict_clause, sqlExc,
                   histVars>>
    /\ UNCHANGED notSQL

\* line 360 with ensure_schema_exists (266-284): a failure is rolled back
\* and raised
EnsureSchemaExists ==
    /\ sqlpc = "ensure_schema"
    /\ IF txState = "aborted"
          THEN /\ sent' = sent + 1
               /\ txState' = "idle"
               /\ sqlExc' = Exc("InFailedSqlTransaction",
                                "current transaction is aborted")
               /\ sqlpc' = "done"
               /\ UNCHANGED dbSchemaExists
          ELSE /\ sent' = IF dbSchemaExists THEN sent + 1 ELSE sent + 2
               /\ txState' = IF dbSchemaExists THEN "open" ELSE "idle"
               /\ dbSchemaExists' = TRUE
               /\ sqlpc' = "create_table"
               /\ UNCHANGED sqlExc
    /\ UNCHANGED <<dbTableExists, dbCols, dbColTypes, dbPK, dbRows,
                   createdWith, data_list, argVars, table_found,
                   on_conflict_clause, histVars>>
    /\ UNCHANGED notSQL

\* lines 361-365 with _execute_query (236-246): CREATE TABLE IF NOT EXISTS
\* is committed; it fails (rolled back, raised) when the composite key names
\* a column the statement does not define
CreateTable ==
    /\ sqlpc = "create_table"
    /\ sent' = sent + 1
    /\ txState' = "idle"
    /\ LET stmt == generate_create_table_statement(data_list, primary_keys)
           names == [n \in 1..Len(stmt.columns) |-> stmt.columns[n].name]
           inline == {stmt.columns[n].name : n \in
                        {m \in 1..Len(stmt.columns) :
                            stmt.columns[m].primary_key}}
       IN  IF ~(Range(stmt.composite) \subseteq Range(names))
              THEN /\ sqlExc' = Exc("ProgrammingError",
                                    "column named in key does not exist")
                   /\ sqlpc' = "done"
                   /\ UNCHANGED <<dbTableExists, dbCols, dbColTypes, dbPK,
                                  createdWith>>
              ELSE /\ IF dbTableExists
                         THEN UNCHANGED <<dbTableExists, dbCols, dbColTypes,
                                          dbPK, createdWith>>
                         ELSE /\ dbTableExists' = TRUE
                              /\ dbCols' = names
                              /\ dbColTypes' =
                                   [c \in Range(names) |->
                                      UdtName((CHOOSE d \in Range(stmt.columns) :
                                                  d.name = c).type)]
                              /\ dbPK' = inline \cup Range(stmt.composite)
                              /\ createdWith' = primary_keys
                   /\ sqlpc' = "fix_time"
                   /\ UNCHANGED sqlExc
    /\ UNCHANGED <<dbSchemaExists, dbRows, data_list, argVars, table_found,
                   on_conflict_clause, histVars>>
    /\ UNCHANGED notSQL

\* lines 367-371: the timestamp columns are rewritten in the caller's dicts
FixTime ==
    /\ sqlpc = "fix_time"
    /\ data_list' =
         IF timestamp_columns # <<>>
            THEN [n \in 1..Len(data_list) |->
                    recursive_fix_time_format(data_list[n], timestamp_columns)]
            ELSE data_list
    /\ sqlpc' = "conflict_clause"
    /\ UNCHANGED <<dbVars, txState, argVars, table_found, on_conflict_clause,
                   sqlExc, sent, histVars>>
    /\ UNCHANGED notSQL

\* lines 373-388: build the ON CONFLICT clause or raise ValueError
BuildConflictClause ==
    /\ sqlpc = "conflict_clause"
    /\ IF on_conflict_action \in {"ignore", "update"}
          THEN /\ on_conflict_clause' =
                    OnConflictClause(on_conflict_action, primary_keys,
                                     data_list[1])
               /\ sqlpc' = "read_catalog"
               /\ UNCHANGED sqlExc
          ELSE /\ sqlExc' = Exc("ValueError", "Invalid on_conflict_action")
               /\ sqlpc' = "done"
               /\ UNCHANGED on_conflict_clause
    /\ UNCHANGED <<dbVars, txState, data_list, argVars, table_found, sent,
                   histVars>>
    /\ UNCHANGED notSQL

\* lines 391-402: read the column catalog of the table
ReadCatalog ==
    /\ sqlpc = "read_catalog"
    /\ sent' = sent + 1
    /\ txState' = "open"
    /\ sqlpc' = "execute"
    /\ UNCHANGED <<dbVars, data_list, argVars, table_found,
                   on_conflict_clause, sqlExc, histVars>>
    /\ UNCHANGED notSQL

\* lines 404-453: bind the rows, send the INSERT; commit on success; on a
\* failure raise Exception -- no rollback is issued, and the connection
\* stays in the aborted transaction
ExecuteInsert ==
    /\ sqlpc = "execute"
    /\ sent' = sent + 1
    /\ LET values == [n \in 1..Len(data_list) |->
                        RowValues(data_list[n], dbColTypes)]
           res == PgInsert(dbRows, values, on_conflict_clause, dbPK,
                           dbColTypes)
       IN  IF res.ok
              THEN /\ dbRows' = res.rows
                   /\ txState' = "idle"
                   /\ UNCHANGED sqlExc
              ELSE /\ sqlExc' = Exc("Exception",
                                    "Error occurred during batch upsert")
                   /\ txState' = "aborted"
                   /\ UNCHANGED dbRows
    /\ sqlpc' = "done"
    /\ UNCHANGED <<dbSchemaExists, dbTableExists, dbCols, dbColTypes, dbPK,
                   createdWith, data_list, argVars, table_found,
                   on_conflict_clause, histVars>>
    /\ UNCHANGED notSQL

\* the call has returned or raised: its frame is gone
SqlReturn ==
    /\ sqlpc = "done"
    /\ sqlpc' = "idle"
    /\ data_list' = <<>>
    /\ primary_keys' = <<>>
    /\ on_conflict_action' = "ignore"
    /\ timestamp_columns' = <<>>
    /\ table_found' = FALSE
    /\ on_conflict_clause' = [kind |-> "nothing", target |-> <<>>,
                              set |-> <<>>]
    /\ sqlExc' = NoExc
    /\ sent' = 0
    /\ repeat' = FALSE
    /\ firstOk' = FALSE
    /\ db0' = [schema |-> FALSE, table |-> FALSE, rows |-> EmptyBag]
    /\ data_list0' = <<>>
    /\ UNCHANGED <<dbVars, txState, inserts>>
    /\ UNCHANGED notSQL

NextSQL ==
    \/ BatchInsert
    \/ Repeat
    \/ DoesTableExist
    \/ EnsureSchemaExists
    \/ CreateTable
    \/ FixTime
    \/ BuildConflictClause
    \/ ReadCatalog
    \/ ExecuteInsert
    \/ SqlReturn

(***************************************************************************)
(* Cloud SQL: properties of batch_insert (checked under SpecSQL).          *)
(***************************************************************************)
SqlCallOver == sqlpc = "done"
ReturnedNormally == SqlCallOver /\ sqlExc = NoExc
\* the values the running call binds to the INSERT, row by row
Incoming == [n \in 1..Len(data_list) |-> RowValues(data_list[n], dbColTypes)]
\* every row of the batch carries the same columns (section 3 of the
\* specification: keys are consistent within one import batch)
UniformBatch ==
    \A n \in 1..Len(data_list) : \A c \in ColSet :
        (data_list[n][c] = "absent") <=> (data_list[1][c] = "absent")

\* C2: batch_insert called twice with the same rows, the same primary_keys
\* and "ignore", on a table that batch_insert created with these
\* primary_keys: when both calls return, the second call has added no row
\* and changed no row, and the table holds exactly one row for every key
\* value of the batch
C2_IgnoreTwiceIsIdempotent ==
    (/\ ReturnedNormally
     /\ repeat
     /\ firstOk
     /\ on_conflict_action = "ignore"
     /\ createdWith = primary_keys)
    => /\ dbRows = db0.rows
       /\ \A n \in 1..Len(data_list) :
             CopiesWithKey(dbRows, Incoming[n], Range(primary_keys)) = 1

\* C2 witness: the repeated call has returned; its batch names one key
\* twice with different values, and the table holds rows
C2_Witness ==
    /\ ReturnedNormally
    /\ repeat
    /\ firstOk
    /\ on_conflict_action = "ignore"
    /\ createdWith = primary_keys
    /\ primary_keys = <<"id">>
    /\ Len(data_list) = 2
    /\ data_list[1]["id"] = data_list[2]["id"]
    /\ data_list[1]["name"] # data_list[2]["name"]
    /\ BagSize(dbRows) = 2

\* C3: after a batch_insert with "update" that returned, whose rows all
\* carry the same columns: every incoming row whose key was in the table
\* is stored with the incoming non-key values, and every stored row whose
\* key is not in the batch is as it was
C3_UpdateOverwritesMatchedRows ==
    (/\ ReturnedNormally
     /\ on_conflict_action = "update"
     /\ data_list # <<>>
     /\ UniformBatch)
    => LET pk == Range(primary_keys)
       IN  /\ \A n \in 1..Len(data_list) :
                 (\E r0 \in DOMAIN db0.rows :
                     KeyOf(r0, pk) = KeyOf(Incoming[n], pk))
                 => \E r \in DOMAIN dbRows :
                       /\ KeyOf(r, pk) = KeyOf(Incoming[n], pk)
                       /\ \A c \in ColSet \ pk :
                             data_list[n][c] # "absent"
                                => r[c] = data_list[n][c]
           /\ \A r0 \in DOMAIN db0.rows :
                 (\A n \in 1..Len(data_list) :
                     KeyOf(Incoming[n], pk) # KeyOf(r0, pk))
                 => (r0 \in DOMAIN dbRows /\ dbRows[r0] = db0.rows[r0])

\* C3 witness: the example of the specification -- two rows stored, a batch
\* of one row whose key is stored with another name; the stored name is now
\* the incoming one
C3_Witness ==
    /\ ReturnedNormally
    /\ on_conflict_action = "update"
    /\ Len(data_list) = 1
    /\ BagSize(db0.rows) = 2
    /\ \E r0 \in DOMAIN db0.rows :
          /\ r0["id"] = data_list[1]["id"]
          /\ r0["name"] = "ann"
    /\ data_list[1]["name"] = "zoe"
    /\ \E r \in DOMAIN dbRows :
          r["id"] = data_list[1]["id"] /\ r["name"] = "zoe"

\* C4 (as stated): a call with non-empty data and an on_conflict_action
\* other than "ignore" and "update" fails with a value error before any
\* statement is sent: no schema or table is created, no row is inserted and
\* the caller's row dicts are not modified
C4_InvalidActionFailsFast ==
    (/\ SqlCallOver
     /\ data_list0 # <<>>
     /\ on_conflict_action \notin {"ignore", "update"})
    => /\ sqlExc.type = "ValueError"
       /\ sent = 0
       /\ dbSchemaExists = db0.schema
       /\ dbTableExists = db0.table
       /\ dbRows = db0.rows
       /\ data_list = data_list0

\* C5 (as stated): when the INSERT fails, the transaction is rolled back
\* before the error reaches the caller: the table holds the rows it held
\* before the call and the connection is not left in a failed transaction
C5_FailedInsertIsRolledBack ==
    (/\ SqlCallOver
     /\ sqlExc = Exc("Exception", "Error occurred during batch upsert"))
    => /\ dbRows = db0.rows
       /\ txState = "idle"

\* C20 (as stated): with "update" the ON CONFLICT clause names the primary
\* keys in input order and its SET list holds every non-key column that the
\* INSERT writes, whatever keys the rows of the batch carry
C20_UpdateSetCoversInsert ==
    (sqlpc = "done" /\ on_conflict_clause.kind = "update")
    => /\ on_conflict_clause.target = primary_keys
       /\ Range(on_conflict_clause.set)
             = DOMAIN dbColTypes \ Range(primary_keys)

(***************************************************************************)
(* Cloud Monitoring: log_to_cloud_monitoring (monitoring_controller.py).   *)
(* The MetricServiceClient is the environment: a call succeeds or fails    *)
(* with a retryable InternalServerError or with another error.             *)
(* retry.Retry of google.api_core calls the target again after every error *)
(* its predicate accepts, sleeping between attempts for a random time of   *)
(* at most the current delay (the delay grows by the multiplier up to the  *)
(* maximum), and raises RetryError once the deadline has passed; an error  *)
(* the predicate does not accept is raised at once.                        *)
(***************************************************************************)
\* the metric every call of the model publishes
metric_type == "rows_imported"
\* errors of the client: the retryable one (line 82) and one that is not
MonErrors == {"InternalServerError", "PermissionDenied"}

\* line 82: predicate=retry.if_exception_type(exceptions.InternalServerError)
RetryPredicate(e) == e.type = "InternalServerError"
\* lines 83-85: the delay after one more sleep
NextDelay(d) ==
    IF d * retry_multiplier < retry_maximum
       THEN d * retry_multiplier ELSE retry_maximum
\* the sleeps the generator may yield for a delay: a short one and the
\* longest one
SleepChoices(d) == {1, d}

\* the metric types a caller publishes; the descriptor the client returns
\* is told apart by the number of the remote call that created it
MetricTypes == {metric_type, "rows_failed"}
NoDescriptors == [t \in {} |-> 0]
descVars == <<metric_descriptors, createCalls, descResults, creates>>
Last(seq) == seq[Len(seq)]

\* line 66: self.metric_descriptors[metric_type] = descriptor
CacheDescriptorNever(cache, t, descriptor) == cache
CacheDescriptor(cache, t, descriptor) ==
    [k \in DOMAIN cache \cup {t} |-> IF k = t THEN descriptor ELSE cache[k]]

\* create_metric_descriptor, lines 33-67: the cached descriptor is returned
\* (lines 48-49); or the client is called (lines 63-65) and its descriptor
\* is cached and returned (lines 66-67); or the client raises and the
\* exception leaves the method before line 66
create_metric_descriptor(t) ==
    \/ /\ t \in DOMAIN metric_descriptors
       /\ descResults' = Append(descResults,
             [type |-> t, raised |-> FALSE, remote |-> FALSE,
              descriptor |-> metric_descriptors[t]])
       /\ UNCHANGED <<metric_descriptors, createCalls, remoteDescriptors>>
    \/ /\ t \notin DOMAIN metric_descriptors
       /\ createCalls' = Append(createCalls, [type |-> t, ok |-> TRUE])
       /\ remoteDescriptors' = remoteDescriptors \cup {t}
       /\ metric_descriptors' =
             CacheDescriptor(metric_descriptors, t, Len(createCalls) + 1)
       /\ descResults' = Append(descResults,
             [type |-> t, raised |-> FALSE, remote |-> TRUE,
              descriptor |-> Len(createCalls) + 1])
    \/ /\ t \notin DOMAIN metric_descriptors
       /\ createCalls' = Append(createCalls, [type |-> t, ok |-> FALSE])
       /\ descResults' = Append(descResults,
             [type |-> t, raised |-> TRUE, remote |-> TRUE, descriptor |-> 0])
       /\ UNCHANGED <<metric_descriptors, remoteDescriptors>>

\* the frame of log_to_cloud_monitoring when no call is running
MonFrameIdle ==
    /\ monpc = "idle"
    /\ delay = retry_initial
    /\ elapsed = 0
    /\ writeErr = NoExc
    /\ monExc = NoExc

\* lines 21-31: __init__; the project holds the descriptor or not
InitMon ==
    /\ metric_descriptors = NoDescriptors
    /\ createCalls = <<>>
    /\ descResults = <<>>
    /\ creates = 0
    /\ remoteDescriptors \in {{}, {metric_type}}
    /\ points = 0
    /\ logs = 0
    /\ MonFrameIdle

\* the monitoring side when another component is exercised
MonAtRest ==
    /\ metric_descriptors = NoDescriptors
    /\ createCalls = <<>>
    /\ descResults = <<>>
    /\ creates = 0
    /\ remoteDescriptors = {}
    /\ points = 0
    /\ logs = 0
    /\ MonFrameIdle

\* lines 92-103: the caller calls log_to_cloud_monitoring
LogToCloudMonitoring ==
    /\ monpc = "idle"
    /\ logs < MaxLogs
    /\ logs' = logs + 1
    /\ monpc' = "metric_descriptor_exists"
    /\ UNCHANGED <<descVars, remoteDescriptors, points, delay,
                   elapsed, writeErr, monExc>>
    /\ UNCHANGED notMon

\* lines 69-77 and 105: get_metric_descriptor finds the descriptor, raises
\* NotFound (False is returned), or raises another error, which leaves
\* log_to_cloud_monitoring
MetricDescriptorExists ==
    /\ monpc = "metric_descriptor_exists"
    /\ \/ /\ metric_type \in remoteDescriptors
          /\ monpc' = "create_time_series"
          /\ UNCHANGED monExc
       \/ /\ metric_type \notin remoteDescriptors
          /\ monpc' = "create_metric_descriptor"
          /\ UNCHANGED monExc
       \/ /\ monExc' = Exc("PermissionDenied", "get_metric_descriptor")
          /\ monpc' = "done"
    /\ UNCHANGED <<descVars, remoteDescriptors, points, delay,
                   elapsed, writeErr, logs>>
    /\ UNCHANGED notMon

\* line 108 with create_metric_descriptor (33-67): an error of the client
\* leaves log_to_cloud_monitoring
CreateMetricDescriptor ==
    /\ monpc = "create_metric_descriptor"
    /\ create_metric_descriptor(metric_type)
    /\ IF Last(descResults').raised
          THEN /\ monExc' = Exc("PermissionDenied", "create_metric_descriptor")
               /\ monpc' = "done"
          ELSE /\ monpc' = "create_time_series"
               /\ UNCHANGED monExc
    /\ UNCHANGED <<creates, points, delay, elapsed, writeErr, logs>>
    /\ UNCHANGED notMon

\* lines 33-67: the caller calls create_metric_descriptor itself; the call
\* returns the descriptor or raises the client's error
CallCreateMetricDescriptor ==
    /\ monpc = "idle"
    /\ creates < MaxCreates
    /\ creates' = creates + 1
    /\ \E t \in MetricTypes : create_metric_descriptor(t)
    /\ UNCHANGED <<monpc, points, delay, elapsed, writeErr, monExc, logs>>
    /\ UNCHANGED notMon

\* where control goes when the try block of lines 146-150 raises
MonExceptTarget(e) ==
    writeErr' = e /\ monpc' = "except" /\ UNCHANGED monExc

\* lines 88-89 and 147: one attempt of _create_time_series_with_retry
CreateTimeSeries ==
    /\ monpc = "create_time_series"
    /\ \/ /\ points' = points + 1
          /\ monpc' = "done"
          /\ UNCHANGED <<writeErr, monExc>>
       \/ \E type \in MonErrors :
             LET e == Exc(type, "create_time_series")
             IN  /\ UNCHANGED points
                 /\ IF ~RetryPredicate(e)
                       THEN MonExceptTarget(e)
                    ELSE IF elapsed >= retry_deadline
                       THEN MonExceptTarget(
                               Exc("RetryError", "Deadline exceeded"))
                    ELSE /\ monpc' = "sleep"
                         /\ UNCHANGED <<writeErr, monExc>>
    /\ UNCHANGED <<descVars, remoteDescriptors, delay, elapsed,
                   logs>>
    /\ UNCHANGED notMon

\* retry.Retry sleeps before the next attempt, never past the deadline
RetrySleep ==
    /\ monpc = "sleep"
    /\ \E sleep \in SleepChoices(delay) :
          elapsed' = IF elapsed + sleep < retry_deadline
                        THEN elapsed + sleep ELSE retry_deadline
    /\ delay' = NextDelay(delay)
    /\ monpc' = "create_time_series"
    /\ UNCHANGED <<descVars, remoteDescriptors, points, writeErr,
                   monExc, logs>>
    /\ UNCHANGED notMon

\* lines 151-155: the except clause logs the error and falls off its end
LogFailure ==
    /\ monpc = "except"
    /\ monpc' = "done"
    /\ UNCHANGED <<descVars, remoteDescriptors, points, delay,
                   elapsed, writeErr, monExc, logs>>
    /\ UNCHANGED notMon

\* the call is over; the caller has the outcome
MonReturn ==
    /\ monpc = "done"
    /\ monpc' = "idle"
    /\ delay' = retry_initial
    /\ elapsed' = 0
    /\ writeErr' = NoExc
    /\ monExc' = NoExc
    /\ UNCHANGED <<descVars, remoteDescriptors, points, logs>>
    /\ UNCHANGED notMon

NextMon ==
    \/ LogToCloudMonitoring
    \/ MetricDescriptorExists
    \/ CreateMetricDescriptor
    \/ CallCreateMetricDescriptor
    \/ CreateTimeSeries
    \/ RetrySleep
    \/ LogFailure
    \/ MonReturn

(***************************************************************************)
(* Cloud Monitoring: properties (checked under SpecMon).                   *)
(***************************************************************************)
\* C11 (as stated): when the time-series write has failed for good (the
\* retry policy gave up, or the error is not retryable), the call ends with
\* that error raised to the caller
C11_WriteFailureReachesCaller ==
    (monpc = "done" /\ writeErr # NoExc) => monExc # NoExc

\* the remote create calls made for metric type t, and those that succeeded
RemoteCreates(t) == {n \in 1..Len(createCalls) : createCalls[n].type = t}
Created(t) == {n \in RemoteCreates(t) : createCalls[n].ok}
\* the cache holds the descriptors of the successful remote creations, no
\* metric type was created twice, the client was not called again for a
\* metric type once its creation had succeeded, and every call for a
\* metric type that follows one that returned a descriptor returned that
\* same descriptor without calling the client
CacheIsKept ==
    /\ DOMAIN metric_descriptors = {t \in MetricTypes : Created(t) # {}}
    /\ \A t \in MetricTypes :
          /\ Cardinality(Created(t)) <= 1
          /\ \A n \in Created(t) :
                /\ metric_descriptors[t] = n
                /\ \A m \in RemoteCreates(t) : m <= n
    /\ \A n, m \in 1..Len(descResults) :
          (/\ n < m
           /\ descResults[n].type = descResults[m].type
           /\ ~descResults[n].raised)
          => /\ ~descResults[m].raised
             /\ ~descResults[m].remote
             /\ descResults[m].descriptor = descResults[n].descriptor
\* a remote creation that fails leaves the cache as it was
FailedCreationKeepsCache ==
    (createCalls' # createCalls /\ ~Last(createCalls').ok)
        => metric_descriptors' = metric_descriptors

\* C22: over any sequence of create_metric_descriptor calls on one
\* controller, the client's create call succeeds at most once for a metric
\* type and is not made again for it afterwards; every later call for that
\* metric type returns the cached descriptor; a failed remote creation
\* leaves the cache unchanged
C22_DescriptorCreatedOnce ==
    [] CacheIsKept /\ [][FailedCreationKeepsCache]_vars

\* C22 witness: for one metric type a remote creation failed, the next one
\* succeeded, and a third call returned the cached descriptor
C22_Witness ==
    \E t \in MetricTypes :
        /\ Cardinality(RemoteCreates(t)) = 2
        /\ Cardinality(Created(t)) = 1
        /\ \E n, m \in 1..Len(descResults) :
              /\ n < m
              /\ descResults[n].type = t /\ descResults[n].remote
              /\ ~descResults[n].raised
              /\ descResults[m].type = t /\ ~descResults[m].remote
              /\ descResults[m].descriptor = metric_descriptors[t]

(***************************************************************************)
(* The pure functions: SchemaGenerator.infer_data_type,                    *)
(* SchemaGenerator.generate_create_table_statement and                     *)
(* BigQueryController._generate_sql_merge, each applied to one input.      *)
(***************************************************************************)
\* the values a sample of infer_data_type is made of
PyScalars ==
    {IntV(BigInt(-32769, HalfWord - 1)), IntV(Int32Min), IntV(Int32Max),
     IntV(BigInt(32768, 0)),
     BoolV(TRUE), FloatV, DateTimeV, DateV, DictV, NoneV,
     StrV(S_abc), StrV(S_5), StrV(S_202401020000), StrV(S_date),
     StrV(S_timestamp)}
PyLists ==
    {ListV(<<>>), ListV(<<IntV(SmallInt(0))>>),
     ListV(<<BoolV(TRUE), BoolV(FALSE)>>), ListV(<<DateV>>),
     ListV(<<StrV(S_abc), IntV(SmallInt(0))>>),
     ListV(<<ListV(<<IntV(SmallInt(0))>>)>>)}
PyValues == PyScalars \cup PyLists
Samples == UNION {[1..n -> PyValues] : n \in 0..MaxSample}

\* the dict_lists of generate_create_table_statement: short ones of up to
\* MaxRows rows, and long ones of as many rows as the sample holds (or one
\* fewer) that carry the key alone, followed by up to MaxTail rows
LeadingRow == [c \in ColSet |-> IF c = "id" THEN "1" ELSE "absent"]
RowLists == UNION {[1..n -> Dicts] : n \in 0..MaxRows}
LongRowLists ==
    {[n \in 1..(k + Len(t)) |-> IF n <= k THEN LeadingRow ELSE t[n - k]] :
        k \in {SampleLimit - 1, SampleLimit},
        t \in UNION {[1..n -> Dicts] : n \in 1..MaxTail}}
DictLists == RowLists \cup LongRowLists
KeyLists == {<<"id">>, <<"tag">>, <<"id", "name">>, <<"name", "id">>}

\* the schemas of the target table and the unique_columns of
\* _generate_sql_merge
SchemaColumns ==
    {<<"id">>, <<"id", "name">>, <<"id", "name", "ts">>,
     <<"name", "ts", "id">>}
UniqueColumnLists == {<<"id">>, <<"id", "name">>, <<"name", "id">>}

\* _generate_sql_merge, lines 201-221: the MERGE statement as its ON
\* conditions, its UPDATE SET assignments and its INSERT columns and values
UpdateColumnsNonKey(columns_to_update, unique_columns) ==
    SelectSeq(columns_to_update, LAMBDA col : col \notin Range(unique_columns))
UpdateColumns(columns_to_update, unique_columns) == columns_to_update
generate_sql_merge(schema, unique_columns) ==
    LET columns_to_update == schema
        updated == UpdateColumns(columns_to_update, unique_columns)
    IN  [on_conditions |->
            [n \in 1..Len(unique_columns) |->
                [T |-> unique_columns[n], S |-> unique_columns[n]]],
         update_set_statements |->
            [n \in 1..Len(updated) |-> [T |-> updated[n], S |-> updated[n]]],
         insert_columns |-> columns_to_update,
         insert_values |-> columns_to_update]

\* udt_name values of information_schema.columns: PostgreSQL names the
\* array type of an element type by a leading underscore
U_int4 == <<"i", "n", "t", "4">>
U_text == <<"t", "e", "x", "t">>
U_jsonb == <<"j", "s", "o", "n", "b">>
U_int4_array == <<"_", "i", "n", "t", "4">>
U_text_array == <<"_", "t", "e", "x", "t">>
U_jsonb_array == <<"_", "j", "s", "o", "n", "b">>
CatalogTypes ==
    {U_int4, U_text, U_jsonb, U_int4_array, U_text_array, U_jsonb_array}
\* str.startswith, str.endswith and str.replace(old, "") for a one-character
\* old
StartsWith(str, prefix) ==
    Len(str) >= Len(prefix) /\ SubSeq(str, 1, Len(prefix)) = prefix
EndsWith(str, suffix) ==
    /\ Len(str) >= Len(suffix)
    /\ SubSeq(str, Len(str) - Len(suffix) + 1, Len(str)) = suffix
Remove(str, old) == SelectSeq(str, LAMBDA c : c # old)

\* json.dumps of a value of the universe
DigitChars == <<"0", "1", "2", "3", "4", "5", "6", "7", "8", "9">>
RECURSIVE json_dumps(_)
RECURSIVE json_items(_)
json_items(items) ==
    IF items = <<>> THEN <<>>
    ELSE IF Len(items) = 1 THEN json_dumps(items[1])
    ELSE json_dumps(items[1]) \o <<",", " ">> \o json_items(Tail(items))
json_dumps(v) ==
    CASE v.kind = "int" -> <<DigitChars[v.int.lo + 1]>>
      [] v.kind = "str" -> <<"\"">> \o v.str \o <<"\"">>
      [] v.kind = "list" -> <<"[">> \o json_items(v.items) \o <<"]">>
      [] v.kind = "dict" -> <<"{", "}">>
      [] OTHER -> <<"n", "u", "l", "l">>

\* the columns of the table, the catalogs the store may report for it and
\* the rows a caller may hand in ("id" is an integer column; "tags" is of
\* any catalog type and its value any value, or the row has no such key)
NoData == [c \in {} |-> 0]
BindValues ==
    {IntV(SmallInt(5)), StrV(S_abc), NoneV, DictV, ListV(<<>>),
     ListV(<<IntV(SmallInt(5))>>),
     ListV(<<IntV(SmallInt(1)), IntV(SmallInt(2))>>), ListV(<<DictV>>)}
BindCatalogs ==
    {[c \in {"id", "tags"} |-> IF c = "id" THEN U_int4 ELSE t] :
        t \in CatalogTypes}
BindRows ==
    {[c \in {"id"} |-> IntV(SmallInt(1))]}
    \cup {[c \in {"id", "tags"} |->
              IF c = "id" THEN IntV(SmallInt(1)) ELSE v] : v \in BindValues}
    \cup {[c \in {"id", "tags", "extra"} |->
              IF c = "id" THEN IntV(SmallInt(1)) ELSE v] : v \in BindValues}

\* _preprocess_data_for_insert, lines 459-469: what one value becomes
\* line 465: elif column_types[key].endswith("[]")
IsArrayColumn(udt) == EndsWith(udt, <<"[", "]">>)
PreprocessValue(value, udt) ==
    IF udt = U_jsonb
       THEN IF IsInstance(value, "dict") \/ IsInstance(value, "list")
               THEN StrV(json_dumps(value))
               ELSE value
    ELSE IF IsArrayColumn(udt)
       THEN IF IsInstance(value, "list") THEN value ELSE ListV(<<value>>)
    ELSE value
\* _preprocess_data_for_insert, lines 455-470
preprocess_row(data, column_types) ==
    [key \in DOMAIN data |->
        IF key \in DOMAIN column_types
           THEN PreprocessValue(data[key], column_types[key])
           ELSE data[key]]
\* _nested_dict_to_json_string, lines 310-333, applied to a row dict
nested_dict_to_json_string(data) ==
    [key \in DOMAIN data |->
        IF IsInstance(data[key], "dict") THEN StrV(json_dumps(data[key]))
        ELSE IF IsInstance(data[key], "list")
           THEN ListV([n \in 1..Len(data[key].items) |->
                    IF IsInstance(data[key].items[n], "dict")
                       THEN StrV(json_dumps(data[key].items[n]))
                       ELSE data[key].items[n]])
        ELSE data[key]]
\* lines 404-416: the values bound for one row, one per catalog column
\* (processed_data.get(col, None))
row_values(data, column_types) ==
    LET pre_processed_data == preprocess_row(data, column_types)
        processed_data == nested_dict_to_json_string(pre_processed_data)
    IN  [col \in DOMAIN column_types |->
            IF col \in DOMAIN processed_data THEN processed_data[col]
            ELSE NoneV]
\* lines 420-431: the cast placeholder of every catalog column
values_template(column_types) ==
    [col \in DOMAIN column_types |->
        IF ~StartsWith(column_types[col], <<"_">>)
           THEN <<"%", "s", ":", ":">> \o column_types[col]
           ELSE <<"%", "s", ":", ":">> \o Remove(column_types[col], "_")
                    \o <<"[", "]">>]

\* nothing returned yet
Pending == [done |-> FALSE, raised |-> FALSE, value |-> <<>>]
Returned(v) == [done |-> TRUE, raised |-> FALSE, value |-> v]
Raised(e) == [done |-> TRUE, raised |-> TRUE, value |-> e]

\* no function is under evaluation
PureAtRest ==
    /\ fn = "none"
    /\ in_values = <<>>
    /\ in_dict_list = <<>>
    /\ in_primary_keys = <<>>
    /\ in_columns = <<>>
    /\ in_unique_columns = <<>>
    /\ in_data = NoData
    /\ in_column_types = NoData
    /\ out = Pending

\* one of the functions is about to be applied to one input
InitPure ==
    /\ out = Pending
    /\ \/ /\ fn = "batch_insert"
          /\ in_values = <<>>
          /\ in_dict_list = <<>>
          /\ in_primary_keys = <<>>
          /\ in_columns = <<>>
          /\ in_unique_columns = <<>>
          /\ in_data \in BindRows
          /\ in_column_types \in BindCatalogs
       \/ /\ fn = "infer_data_type"
          /\ in_values \in Samples
          /\ in_dict_list = <<>>
          /\ in_primary_keys = <<>>
          /\ in_columns = <<>>
          /\ in_unique_columns = <<>>
          /\ in_data = NoData
          /\ in_column_types = NoData
       \/ /\ fn = "generate_create_table_statement"
          /\ in_values = <<>>
          /\ in_dict_list \in DictLists
          /\ in_primary_keys \in KeyLists
          /\ in_columns = <<>>
          /\ in_unique_columns = <<>>
          /\ in_data = NoData
          /\ in_column_types = NoData
       \/ /\ fn = "_generate_sql_merge"
          /\ in_values = <<>>
          /\ in_dict_list = <<>>
          /\ in_primary_keys = <<>>
          /\ in_columns \in SchemaColumns
          /\ in_unique_columns \in UniqueColumnLists
          /\ in_data = NoData
          /\ in_column_types = NoData

\* SchemaGenerator.infer_data_type(values)
InferDataType ==
    /\ fn = "infer_data_type"
    /\ ~out.done
    /\ out' = Returned(infer_data_type(in_values))
    /\ UNCHANGED <<fn, in_values, in_dict_list, in_primary_keys, in_columns,
                   in_unique_columns, in_data, in_column_types>>
    /\ UNCHANGED notPure

\* SchemaGenerator.generate_create_table_statement(table_schema, table_name,
\* dict_list, primary_keys)
GenerateCreateTableStatement ==
    /\ fn = "generate_create_table_statement"
    /\ ~out.done
    /\ LET r == generate_create_table_statement(in_dict_list,
                                                in_primary_keys)
       IN  out' = IF "type" \in DOMAIN r THEN Raised(r) ELSE Returned(r)
    /\ UNCHANGED <<fn, in_values, in_dict_list, in_primary_keys, in_columns,
                   in_unique_columns, in_data, in_column_types>>
    /\ UNCHANGED notPure

\* BigQueryController._generate_sql_merge(main_table_ref, temp_table_ref,
\* unique_columns), the target table having the schema in_columns
GenerateSqlMergeStatement ==
    /\ fn = "_generate_sql_merge"
    /\ ~out.done
    /\ out' = Returned(generate_sql_merge(in_columns, in_unique_columns))
    /\ UNCHANGED <<fn, in_values, in_dict_list, in_primary_keys, in_columns,
                   in_unique_columns, in_data, in_column_types>>
    /\ UNCHANGED notPure

\* batch_insert, lines 400-431: one row of data_list is pre-processed and
\* laid out in the order of the catalog's columns, next to the template of
\* cast placeholders
BindRow ==
    /\ fn = "batch_insert"
    /\ ~out.done
    /\ out' = Returned([values |-> row_values(in_data, in_column_types),
                        template |-> values_template(in_column_types)])
    /\ UNCHANGED <<fn, in_values, in_dict_list, in_primary_keys, in_columns,
                   in_unique_columns, in_data, in_column_types>>
    /\ UNCHANGED notPure

NextPure ==
    \/ BindRow
    \/ InferDataType
    \/ GenerateCreateTableStatement
    \/ GenerateSqlMergeStatement

(***************************************************************************)
(* The pure functions: properties (checked under SpecPure).                *)
(***************************************************************************)
InferReturned == fn = "infer_data_type" /\ out.done
GenerateOver == fn = "generate_create_table_statement" /\ out.done
MergeReturned == fn = "_generate_sql_merge" /\ out.done
\* the per-value types observed in the sample
Observed == {ValueType(in_values[n]) : n \in 1..Len(in_values)}
\* the fixed order of the types
FixedOrder ==
    <<"TEXT", "JSONB", "TEXT[]", "JSONB[]", "TIMESTAMP[]", "DATE[]", "REAL[]",
      "BIGINT[]", "INTEGER[]", "BOOLEAN[]", "TIMESTAMP", "DATE", "REAL",
      "BIGINT", "INTEGER", "BOOLEAN">>
Place(t) == CHOOSE n \in 1..Len(FixedOrder) : FixedOrder[n] = t
Reverse(seq) == [n \in 1..Len(seq) |-> seq[Len(seq) + 1 - n]]
\* an int within the signed 32-bit range: its upper part is a signed 16-bit
\* number
Within32Bits(v) == v.int.hi >= -32768 /\ v.int.hi <= 32767
OnlyIntegers ==
    in_values # <<>> /\ \A n \in 1..Len(in_values) : in_values[n].kind = "int"

\* C12: for a sample of integers, infer_data_type returns INTEGER exactly
\* when every value is within -2147483648..2147483647, and BIGINT when a
\* value is outside that range
C12_IntegerWidth ==
    (InferReturned /\ OnlyIntegers)
    => /\ out.value = "INTEGER"
             <=> \A n \in 1..Len(in_values) : Within32Bits(in_values[n])
       /\ (\E n \in 1..Len(in_values) : ~Within32Bits(in_values[n]))
             => out.value = "BIGINT"

\* C12 witness: both ends of the range next to a value beyond it
C12_Witness ==
    /\ InferReturned
    /\ in_values = <<IntV(Int32Min), IntV(Int32Max), IntV(BigInt(32768, 0))>>
    /\ out.value = "BIGINT"

\* C13: a sample holding a string that parses as neither a date/time nor an
\* integer is inferred as TEXT, whatever else the sample holds
C13_UnparseableStringIsText ==
    (/\ InferReturned
     /\ \E n \in 1..Len(in_values) :
           /\ in_values[n].kind = "str"
           /\ dateutil_parse(in_values[n].str) = "error")
    => out.value = "TEXT"

\* C13 witness: the unparseable string after a dict and a list of dates
C13_Witness ==
    /\ InferReturned
    /\ in_values = <<DictV, ListV(<<DateV>>), StrV(S_abc)>>
    /\ out.value = "TEXT"

\* C14: when a type of the fixed order is among the per-value types
\* observed, infer_data_type returns the observed type that comes first in
\* the fixed order, and returns the same for the sample reversed and
\* repeated
C14_FirstInFixedOrder ==
    (InferReturned /\ Observed \cap Range(FixedOrder) # {})
    => /\ out.value \in Observed \cap Range(FixedOrder)
       /\ \A t \in Observed \cap Range(FixedOrder) :
             Place(out.value) <= Place(t)
       /\ out.value = infer_data_type(Reverse(in_values) \o in_values)

\* C14 witness: three types observed, the winner seen last
C14_Witness ==
    /\ InferReturned
    /\ in_values = <<IntV(Int32Max), DateV, ListV(<<DateV>>)>>
    /\ Observed = {"INTEGER", "DATE", "DATE[]"}
    /\ out.value = "DATE[]"

\* C15 (as stated): a sample of booleans is inferred as BOOLEAN, and a sample
\* of lists of booleans as BOOLEAN[]
C15_BooleanIsBoolean ==
    /\ (/\ InferReturned
        /\ in_values # <<>>
        /\ \A n \in 1..Len(in_values) : in_values[n].kind = "bool")
       => out.value = "BOOLEAN"
    /\ (/\ InferReturned
        /\ in_values # <<>>
        /\ \A n \in 1..Len(in_values) :
              /\ in_values[n].kind = "list"
              /\ in_values[n].items # <<>>
              /\ \A m \in 1..Len(in_values[n].items) :
                    in_values[n].items[m].kind = "bool")
       => out.value = "BOOLEAN[]"

\* C16 (as stated): infer_data_type of an empty list of values, and
\* generate_create_table_statement of an empty list of rows, each fail with
\* an error
C16_EmptySampleIsError ==
    /\ (InferReturned /\ in_values = <<>>) => out.raised
    /\ (GenerateOver /\ in_dict_list = <<>>) => out.raised

\* C16 (amended): generate_create_table_statement of an empty list of rows
\* fails with ValueError; infer_data_type of an empty list of values raises
\* nothing and returns TEXT
C16_EmptySampleErrorOrText ==
    /\ (InferReturned /\ in_values = <<>>)
          => (~out.raised /\ out.value = "TEXT")
    /\ (GenerateOver /\ in_dict_list = <<>>)
          => (out.raised /\ out.value.type = "ValueError")

\* C16 witness: infer_data_type has returned TEXT for the empty list
C16_Witness ==
    /\ InferReturned
    /\ in_values = <<>>
    /\ out = Returned("TEXT")

\* C30: for every list of values -- with None, with values of a type no
\* branch recognises, with empty lists and with lists nested in lists --
\* infer_data_type returns one of the 16 types of the fixed order; when no
\* observed type is in that order (a list of lists, typed "INTEGER[][]"),
\* and when the list contains None, it returns TEXT
C30_AlwaysOneOfTheFixedTypes ==
    InferReturned =>
        /\ ~out.raised
        /\ out.value \in Range(FixedOrder)
        /\ Len(FixedOrder) = 16
        /\ Observed \cap Range(FixedOrder) = {} => out.value = "TEXT"
        /\ (\E n \in 1..Len(in_values) : in_values[n].kind = "NoneType")
              => out.value = "TEXT"

\* C30 witness: a sample of None, an int and a list of lists has been
\* resolved to TEXT
C30_Witness ==
    /\ InferReturned
    /\ \E n \in 1..Len(in_values) : in_values[n].kind = "NoneType"
    /\ \E n \in 1..Len(in_values) : in_values[n].kind = "int"
    /\ \E n \in 1..Len(in_values) :
          /\ in_values[n].kind = "list"
          /\ in_values[n].items # <<>>
          /\ in_values[n].items[1].kind = "list"
    /\ out = Returned("TEXT")

\* a row has been bound
RowBound == fn = "batch_insert" /\ out.done
\* the catalog reports the column as an array type: its udt_name has the
\* leading underscore, and its cast placeholder carries the [] suffix
ArrayColumns ==
    {col \in DOMAIN in_column_types :
        /\ StartsWith(in_column_types[col], <<"_">>)
        /\ EndsWith(out.value.template[col], <<"[", "]">>)}

\* C25 (as stated): for every column the catalog reports as an array type
\* -- the columns whose cast placeholder gets the [] suffix -- a value of
\* the row that is no list is bound as a one-element list holding it, and a
\* list is bound as it was given
C25_ScalarsWrappedForArrayColumns ==
    RowBound =>
        \A col \in ArrayColumns \cap DOMAIN in_data :
            IF in_data[col].kind = "list"
               THEN out.value.values[col].kind = "list"
                    /\ Len(out.value.values[col].items)
                          = Len(in_data[col].items)
               ELSE out.value.values[col] = ListV(<<in_data[col]>>)

\* the call returned a statement
GenerateReturned == GenerateOver /\ ~out.raised
\* the rows the statement is inferred from: the first min(1000, n)
Sampled ==
    IF Len(in_dict_list) > 1000 THEN 1..1000 ELSE 1..Len(in_dict_list)
Carries(n, c) == in_dict_list[n][c] # "absent"
SampledKeys == {c \in ColSet : \E n \in Sampled : Carries(n, c)}
\* position of a key within one dict
KeyPlace(c) == CHOOSE n \in 1..Len(ColOrder) : ColOrder[n] = c
\* key a is first seen before key b
SeenBefore(a, b) ==
    \E n \in Sampled :
       /\ Carries(n, a)
       /\ \A m \in 1..(n - 1) : ~Carries(m, b)
       /\ Carries(n, b) => KeyPlace(a) < KeyPlace(b)

\* C17: for a primary_keys list of length 1 (naming a key of the sampled
\* rows) the statement has the inline PRIMARY KEY marker on exactly one
\* column definition, that key's, and no composite clause; for a longer list
\* it has no inline marker and one composite clause listing the keys in
\* input order
C17_PrimaryKeyPlacement ==
    GenerateReturned
    => LET columns == out.value.columns
           marked == {n \in 1..Len(columns) : columns[n].primary_key}
       IN  /\ (Len(in_primary_keys) = 1
                  /\ in_primary_keys[1] \in SampledKeys)
                 => /\ Cardinality(marked) = 1
                    /\ \A n \in marked :
                          columns[n].name = in_primary_keys[1]
                    /\ out.value.composite = <<>>
           /\ Len(in_primary_keys) > 1
                 => /\ marked = {}
                    /\ out.value.composite = in_primary_keys

\* C17 witness: one statement with the inline marker among three columns
C17_Witness ==
    /\ GenerateReturned
    /\ in_primary_keys = <<"tag">>
    /\ Len(out.value.columns) = 3
    /\ out.value.columns[3].primary_key
    /\ ~out.value.columns[1].primary_key

\* C18: the statement has exactly one column definition for each distinct
\* key of the first min(1000, n) rows, in the order in which the keys are
\* first seen; it is the statement that the first 1000 rows alone yield
C18_ColumnsOfTheSample ==
    GenerateReturned
    => LET columns == out.value.columns
       IN  /\ {columns[n].name : n \in 1..Len(columns)} = SampledKeys
           /\ Len(columns) = Cardinality(SampledKeys)
           /\ \A n, m \in 1..Len(columns) :
                 n < m => SeenBefore(columns[n].name, columns[m].name)
           /\ Len(in_dict_list) > 1000
                 => out.value =
                       generate_create_table_statement(
                          SubSeq(in_dict_list, 1, 1000), in_primary_keys)

\* C18 witness: row 1001 brings two keys that no earlier row carries; the
\* statement has neither
C18_Witness ==
    /\ GenerateReturned
    /\ Len(in_dict_list) = 1001
    /\ Carries(1001, "name") /\ Carries(1001, "tag")
    /\ Len(out.value.columns) = 1
    /\ out.value.columns[1].name = "id"

\* C19 (as stated): the MERGE joins on T.k = S.k for each unique column in
\* input order, its WHEN MATCHED branch sets exactly the columns that are
\* not unique columns, and its WHEN NOT MATCHED branch inserts every column
C19_MergeUpdatesNonKeyColumns ==
    MergeReturned
    => /\ out.value.on_conditions =
             [n \in 1..Len(in_unique_columns) |->
                 [T |-> in_unique_columns[n], S |-> in_unique_columns[n]]]
       /\ {a.T : a \in Range(out.value.update_set_statements)}
             = Range(in_columns) \ Range(in_unique_columns)
       /\ out.value.insert_columns = in_columns
       /\ out.value.insert_values = in_columns

\* C19 (amended): as above, but the WHEN MATCHED branch sets every column of
\* the target schema, the unique columns included, each to the staging value
C19_MergeUpdatesEveryColumn ==
    MergeReturned
    => /\ out.value.on_conditions =
             [n \in 1..Len(in_unique_columns) |->
                 [T |-> in_unique_columns[n], S |-> in_unique_columns[n]]]
       /\ out.value.update_set_statements =
             [n \in 1..Len(in_columns) |->
                 [T |-> in_columns[n], S |-> in_columns[n]]]
       /\ out.value.insert_columns = in_columns
       /\ out.value.insert_values = in_columns

\* C19 witness: a statement for a three-column table with two unique
\* columns given in another order than the schema's
C19_Witness ==
    /\ MergeReturned
    /\ in_columns = <<"id", "name", "ts">>
    /\ in_unique_columns = <<"name", "id">>
    /\ Len(out.value.update_set_statements) = 3
    /\ out.value.on_conditions[1].T = "name"

(***************************************************************************)
(* Firestore: batch_upsert_by_path and batch_set_by_path                   *)
(* (cloud_firestore_controller.py). A WriteBatch collects writes and       *)
(* commit applies all of them or, when it fails, none.                     *)
(***************************************************************************)
\* lines 38-39
DOCUMENT == "document"
COLLECTION == "collection"
\* paths of two documents and of their collection
FsDocPaths == {<<"users", "u1">>, <<"users", "u2">>}
FsPaths == FsDocPaths \cup {<<"users">>}
\* document_content: a dict, the JSON text of a dict, or text that is no
\* JSON; a dict is the set of its fields
FsContents ==
    {[kind |-> "dict", fields |-> {"a"}, text |-> ""],
     [kind |-> "str", fields |-> {}, text |-> "{\"b\": 1}"],
     [kind |-> "str", fields |-> {}, text |-> "oops"]}
FsEntries == [full_reference : FsPaths, document_content : FsContents]
FsOperations == UNION {[1..n -> FsEntries] : n \in 0..MaxOps}
FsMethods == {"batch_upsert_by_path", "batch_set_by_path"}

\* get_reference_by_path, lines 155-160: the type of the reference
RefType(path) == IF Len(path) % 2 # 0 THEN COLLECTION ELSE DOCUMENT
\* json.loads: the dict of a JSON text, kind "error" for JSONDecodeError
json_loads(text) ==
    IF text = "{\"b\": 1}"
       THEN [kind |-> "dict", fields |-> {"b"}, text |-> ""]
       ELSE [kind |-> "error", fields |-> {}, text |-> text]
\* a stored document and the place of a document that does not exist
StoredDoc(fields) == [exists |-> TRUE, fields |-> fields]
AbsentDoc == [exists |-> FALSE, fields |-> {}]
\* lines 216 and 282: batch.set(doc_ref, document_data, merge=...)
WriteOne(stored, fields, merge) ==
    IF merge THEN StoredDoc(stored.fields \cup fields) ELSE StoredDoc(fields)
RECURSIVE ApplyBatch(_, _, _)
ApplyBatch(docs, batch, merge) ==
    IF batch = <<>> THEN docs
    ELSE ApplyBatch(
            [docs EXCEPT ![batch[1].path] =
                WriteOne(docs[batch[1].path], batch[1].fields, merge)],
            Tail(batch), merge)

FSFrameIdle ==
    /\ fspc = "idle"
    /\ fsMethod = "none"
    /\ operations = <<>>
    /\ fsIdx = 0
    /\ fsBatch = <<>>
    /\ fsErr = NoExc
    /\ fsExc = NoExc
    /\ fsDocs0 = [d \in FsDocPaths |-> AbsentDoc]

InitFS ==
    /\ fsDocs \in [FsDocPaths -> {AbsentDoc, StoredDoc({"a"})}]
    /\ fsCalls = 0
    /\ FSFrameIdle

\* the Firestore side when another component is exercised
FSAtRest ==
    /\ fsDocs = [d \in FsDocPaths |-> AbsentDoc]
    /\ fsCalls = 0
    /\ FSFrameIdle

\* lines 198-211 and 257-270: the call starts and opens a batch
BatchByPath ==
    /\ fspc = "idle"
    /\ fsCalls < MaxBatches
    /\ fsCalls' = fsCalls + 1
    /\ fsMethod' \in FsMethods
    /\ operations' \in FsOperations
    /\ fsIdx' = 0
    /\ fsBatch' = <<>>
    /\ fsErr' = NoExc
    /\ fsExc' = NoExc
    /\ fsDocs0' = fsDocs
    /\ fspc' = "entries"
    /\ UNCHANGED fsDocs
    /\ UNCHANGED notFS

\* lines 213-225 and 272-291: one entry of the loop; an exception leaves
\* the loop for the except clause
NextEntry ==
    /\ fspc = "entries"
    /\ fsIdx < Len(operations)
    /\ LET entry == operations[fsIdx + 1]
           ref_type == RefType(entry.full_reference)
           document_data ==
               IF entry.document_content.kind = "str"
                  THEN json_loads(entry.document_content.text)
                  ELSE entry.document_content
       IN  IF ref_type = DOCUMENT
              THEN IF document_data.kind = "error"
                      THEN /\ fsErr' = Exc("JSONDecodeError", "Expecting value")
                           /\ fspc' = "except"
                           /\ UNCHANGED <<fsBatch, fsIdx>>
                      ELSE /\ fsBatch' = Append(fsBatch,
                                 [path |-> entry.full_reference,
                                  fields |-> document_data.fields])
                           /\ fsIdx' = fsIdx + 1
                           /\ UNCHANGED <<fspc, fsErr>>
              ELSE /\ fsErr' = Exc("FirestorePathError",
                                   "Path must point to a document.")
                   /\ fspc' = "except"
                   /\ UNCHANGED <<fsBatch, fsIdx>>
    /\ UNCHANGED <<fsDocs, fsMethod, operations, fsExc, fsDocs0, fsCalls>>
    /\ UNCHANGED notFS

\* lines 228 and 294: batch.commit() applies every write, or fails
Commit ==
    /\ fspc = "entries"
    /\ fsIdx = Len(operations)
    /\ \/ /\ fsDocs' = ApplyBatch(fsDocs, fsBatch,
                                  fsMethod = "batch_upsert_by_path")
          /\ fspc' = "return"
          /\ UNCHANGED fsErr
       \/ /\ fsErr' = Exc("GoogleAPIError", "commit failed")
          /\ fspc' = "except"
          /\ UNCHANGED fsDocs
    /\ UNCHANGED <<fsMethod, operations, fsIdx, fsBatch, fsExc, fsDocs0,
                   fsCalls>>
    /\ UNCHANGED notFS

\* lines 229-230 and 295-296: except Exception as e: logger.error(...); the
\* clause ends without raising
FsExcept ==
    /\ fspc = "except"
    /\ fspc' = "return"
    /\ UNCHANGED <<fsDocs, fsMethod, operations, fsIdx, fsBatch, fsErr, fsExc,
                   fsDocs0, fsCalls>>
    /\ UNCHANGED notFS

\* the method body has ended without an exception in flight, so the
\* tenacity decorator of batch_upsert_by_path (lines 252-256) has nothing
\* to retry and the call returns None
FsDeliver ==
    /\ fspc = "return"
    /\ fspc' = "done"
    /\ UNCHANGED <<fsDocs, fsMethod, operations, fsIdx, fsBatch, fsErr, fsExc,
                   fsDocs0, fsCalls>>
    /\ UNCHANGED notFS

\* the caller has the outcome
FsReturn ==
    /\ fspc = "done"
    /\ fspc' = "idle"
    /\ fsMethod' = "none"
    /\ operations' = <<>>
    /\ fsIdx' = 0
    /\ fsBatch' = <<>>
    /\ fsErr' = NoExc
    /\ fsExc' = NoExc
    /\ fsDocs0' = [d \in FsDocPaths |-> AbsentDoc]
    /\ UNCHANGED <<fsDocs, fsCalls>>
    /\ UNCHANGED notFS

NextFS ==
    \/ BatchByPath
    \/ NextEntry
    \/ Commit
    \/ FsExcept
    \/ FsDeliver
    \/ FsReturn

(***************************************************************************)
(* Firestore: properties (checked under SpecFS).                           *)
(***************************************************************************)
\* some entry of the batch has a path that points to no document
OddPathInBatch ==
    \E n \in 1..Len(operations) :
        Len(operations[n].full_reference) % 2 # 0

\* C26 (as stated): when the path of any entry points to no document (a
\* path of odd length), batch_upsert_by_path and batch_set_by_path raise
\* FirestorePathError to the caller and commit none of the batch's writes
C26_PathErrorReachesCaller ==
    (fspc = "done" /\ OddPathInBatch) =>
        /\ fsExc.type = "FirestorePathError"
        /\ fsDocs = fsDocs0

(***************************************************************************)
(* BigQueryJobs.create_bq_table (bigquery_jobs.py). client.get_table       *)
(* returns a Table object for a table that exists and raises NotFound for  *)
(* one that does not; DEFAULT_RETRY retries transient errors only.         *)
(***************************************************************************)
JobTableIds == {"t1", "t2"}
\* the schemas the file at schema_path may hold
JobSchemas == {"A", "B"}
\* the truth value of what get_table returned: a Table object defines
\* neither __bool__ nor __len__, so it is true; None would be false
PyTruth(v) == v # "None"

JobFrameIdle ==
    /\ jobpc = "idle"
    /\ job_table_id = "none"
    /\ job_schema_path = "none"
    /\ jobExc = NoExc
    /\ jobTrace = <<>>
    /\ jobTables0 = [t \in JobTableIds |-> "none"]

InitJobs ==
    /\ jobTables \in [JobTableIds -> {"none", "A"}]
    /\ jobCalls = 0
    /\ JobFrameIdle

\* the BigQueryJobs side when another component is exercised
JobsAtRest ==
    /\ jobTables = [t \in JobTableIds |-> "none"]
    /\ jobCalls = 0
    /\ JobFrameIdle

\* lines 39-54: the call starts with its arguments
CreateBqTable ==
    /\ jobpc = "idle"
    /\ jobCalls < MaxJobCalls
    /\ jobCalls' = jobCalls + 1
    /\ job_table_id' \in JobTableIds
    /\ job_schema_path' \in JobSchemas
    /\ jobExc' = NoExc
    /\ jobTrace' = <<>>
    /\ jobTables0' = jobTables
    /\ jobpc' = "get_table"
    /\ UNCHANGED jobTables
    /\ UNCHANGED notJobs

\* lines 56-71: if not client.get_table(table_ref): parse the schema and
\* create the table. An exception of get_table leaves the method.
LookupAndCreate ==
    /\ jobpc = "get_table"
    /\ \/ /\ jobTables[job_table_id] # "none"
          /\ LET table == "Table"
             IN  IF ~PyTruth(table)
                    THEN /\ jobTables' = [jobTables EXCEPT
                                            ![job_table_id] = job_schema_path]
                         /\ jobTrace' = <<Ev("get_table", 1),
                                          Ev("create_table", 1)>>
                    ELSE /\ jobTrace' = <<Ev("get_table", 1)>>
                         /\ UNCHANGED jobTables
          /\ UNCHANGED jobExc
       \/ /\ jobTables[job_table_id] = "none"
          /\ jobTrace' = <<Ev("get_table", 0)>>
          /\ jobExc' = Exc("NotFound", "Not found: Table")
          /\ UNCHANGED jobTables
       \/ /\ jobTrace' = <<Ev("get_table", 0)>>
          /\ jobExc' = Exc("GoogleAPIError", "get_table failed")
          /\ UNCHANGED jobTables
    /\ jobpc' = "done"
    /\ UNCHANGED <<job_table_id, job_schema_path, jobTables0, jobCalls>>
    /\ UNCHANGED notJobs

\* the caller has the outcome
JobReturn ==
    /\ jobpc = "done"
    /\ jobpc' = "idle"
    /\ job_table_id' = "none"
    /\ job_schema_path' = "none"
    /\ jobExc' = NoExc
    /\ jobTrace' = <<>>
    /\ jobTables0' = [t \in JobTableIds |-> "none"]
    /\ UNCHANGED <<jobTables, jobCalls>>
    /\ UNCHANGED notJobs

NextJobs ==
    \/ CreateBqTable
    \/ LookupAndCreate
    \/ JobReturn

(***************************************************************************)
(* BigQueryJobs: properties (checked under SpecJobs).                      *)
(***************************************************************************)
\* the call issued client.create_table
CreateIssued == \E n \in 1..Len(jobTrace) : jobTrace[n].op = "create_table"

\* C27 (as stated): create_bq_table creates the table with the schema parsed
\* from schema_path when the table does not exist yet (the lookup of a
\* missing table fails with not-found), and issues no create when the table
\* exists
C27_CreatesMissingTable ==
    (jobpc = "done" /\ jobExc.type # "GoogleAPIError") =>
        IF jobTables0[job_table_id] = "none"
           THEN /\ CreateIssued
                /\ jobTables[job_table_id] = job_schema_path
           ELSE /\ ~CreateIssued
                /\ jobTables = jobTables0

(***************************************************************************)
(* Specifications.                                                         *)
(***************************************************************************)
\* every controller constructed; the component a specification exercises
\* starts in any of its initial conditions, the others stay at rest
OthersAtRest == FSAtRest /\ JobsAtRest /\ InitConc
InitForBQ == InitBQ /\ InitSQL /\ MonAtRest /\ PureAtRest /\ OthersAtRest
InitForSQL == BQAtRest /\ InitSQL /\ MonAtRest /\ PureAtRest /\ OthersAtRest
InitForMon == BQAtRest /\ InitSQL /\ InitMon /\ PureAtRest /\ OthersAtRest
InitForPure == BQAtRest /\ InitSQL /\ MonAtRest /\ InitPure /\ OthersAtRest
InitForFS ==
    /\ BQAtRest /\ InitSQL /\ MonAtRest /\ PureAtRest
    /\ InitFS /\ JobsAtRest /\ InitConc
InitForJobs ==
    /\ BQAtRest /\ InitSQL /\ MonAtRest /\ PureAtRest
    /\ FSAtRest /\ InitJobs /\ InitConc
InitForConc == BQAtRest /\ InitSQL /\ MonAtRest /\ PureAtRest /\ OthersAtRest
SpecBQ == InitForBQ /\ [][NextBQ]_vars
SpecSQL == InitForSQL /\ [][NextSQL]_vars
SpecMon == InitForMon /\ [][NextMon]_vars
SpecPure == InitForPure /\ [][NextPure]_vars
SpecFS == InitForFS /\ [][NextFS]_vars
SpecJobs == InitForJobs /\ [][NextJobs]_vars
SpecConc == InitForConc /\ [][NextConc]_vars

====
